---- MODULE Spec2Model ----
(***************************************************************************)
(* Visual regression comparison engine of the Omnizia test repository.     *)
(*                                                                         *)
(* The programs are modelled over one set of variables; a behaviour runs   *)
(* one of them and leaves the variables of the others alone:               *)
(*   Spec     the bounded-concurrency runs: either main of                 *)
(*            compare_optimized.ts with its per-URL retry task and its     *)
(*            runWithConcurrencyLimit (variants 1 and 2 differ in the      *)
(*            guard of the splice only, see VariantsAgree), or             *)
(*            runWithConcurrencyLimit of compare.ts over an arbitrary fn;  *)
(*   SpecSeq  the sequential main of compare_optimized.ts (variant 3);     *)
(*   SpecCmp  the sequential main of compare.ts.                           *)
(* Browser, file system and pixelmatch are external: a navigation, a       *)
(* screenshot or a comparison either returns or throws, chosen freely.     *)
(* browser.newPage() and tab.close() are taken to return. JavaScript runs  *)
(* a synchronous stretch to completion: no callback runs while the for     *)
(* loop of a scheduler is between two awaits.                              *)
(***************************************************************************)
EXTENDS Integers, Sequences, FiniteSets, TLC

\* ---- bounds of the model ----
MaxTargets == 3
MaxLimit == 2
MaxDiff == 1
MaxPairs == 3
MaxCmpUrls == 2
MaxResults == 3
MaxDuration == 2
MaxTpUrls == 3
MaxTabs == 2
MaxCaptures == 2
MaxDim == 3
MaxCapTasks == 2
MaxPathLen == 2
MaxGetTabCalls == 3

\* ---- program constants ----
MaxAttempts == 3

VARIABLES
  \* compare_optimized.ts, concurrent variants
  numUrls,      \* urls.length; target i is the i-th URL of the input
  limit,        \* the limit argument of runWithConcurrencyLimit
  mainPc,       \* position of main
  runPc,        \* position of runWithConcurrencyLimit
  nextIdx,      \* index of the next task the for-loop starts
  executing,    \* the executing array (task indices, in push order)
  raceOn,       \* the promises Promise.race was called on
  taskPc,       \* position of each task closure
  attempt,      \* the attempt counter of each task's retry loop
  tab,          \* the page each task holds (0: none)
  captured,     \* per task, the steps the attempt in progress has completed
  numDiff,      \* per task, numDiffPixels of the last comparison
  taskValue,    \* per task, the value the task's promise was fulfilled with
  openPages,    \* pages opened and not closed
  closedPages,  \* pages that were closed
  browserOpen,  \* the persistent context is open
  results,      \* main's results array (after filter(Boolean))
  summary,      \* the summary object handed to generatePDFReport
  reported,     \* generatePDFReport has run
  attemptLog,   \* history: per task, the outcome of each finished attempt
  \* compare.ts, runWithConcurrencyLimit(items, limit, fn)
  poolPc,         \* position of runWithConcurrencyLimit
  poolNumItems,   \* items.length
  poolLimit,      \* the limit argument
  poolNext,       \* index of the next item of the for loop
  poolExec,       \* the executing array (the e of each item, in push order)
  poolRaceOn,     \* the promises Promise.race / Promise.all was called on
  poolTask,       \* per item, how far its promise chain has got
  poolResults,    \* the results array
  \* compare_optimized.ts, sequential variant 3
  seqPc,          \* position of main
  seqNumPairs,    \* pairs.length, as getScreenshotPairs() finds it
  seqIdx,         \* index of the pair the for loop is at
  seqStep,        \* the await the loop body is at
  seqResults,     \* main's results array
  seqBrowserOpen, \* the browser is launched and not closed
  seqFailed,      \* history: the pair whose step threw (0: none)
  \* compare.ts main
  cmpPc,          \* position of main
  cmpNumUrls,     \* urls.length
  cmpIdx,         \* index of the URL the for loop is at
  cmpResult,      \* the result object of the current URL
  cmpFiles,       \* screenshot files that exist
  cmpResults,     \* main's results array
  cmpHistory,     \* history: per URL, the steps that failed
  cmpSummary,     \* the counts generateHTMLReport prints
  cmpStatuses,     \* testRunInfo.results[i].status
  \* compare_optimized.ts main, the average duration of the summary
  sumPc,          \* position in the computation of the summary
  sumDurations,   \* r.duration of each entry of results
  sumIdx,         \* index of the entry reduce is at
  sumAcc,         \* the accumulator of reduce
  avgDuration,     \* the avgDuration of the summary
  \* huperlink-list.ts, processUrls with its TabPool
  tpPc,           \* position of processUrls
  tpNumUrls,      \* urls.length
  tpSize,         \* the size the TabPool was constructed with
  tpTabs,         \* the tabs array: tpTabs[i] is tabs[i].busy
  tpInitialized,  \* TabPool.isInitialized
  tpCaller,       \* per caller (0: ensureLogin, i: extractLinks of url i), its position
  tpHeld,         \* per caller, the tab getTab returned and not yet released (0: none)
  tpAcquired,     \* history: per caller, the number of tabs getTab returned
  tpReleased,      \* history: per caller, the number of calls of releaseTab
  tpValue,        \* per extractLinks call: the value its promise was fulfilled with, or Null
  tpOrder,        \* history: the extractLinks calls in the order they finished
  tpResults,      \* results of processUrls: the output rows
  \* compare_optimized.ts, captureScreenshot of variants 1 and 2
  capVariant,     \* 1: lines 134-161, 2: lines 686-718
  capPc,          \* the await captureScreenshot is at
  cookieAccepted, \* the module's cookieAccepted flag
  capCalls,       \* number of calls of captureScreenshot so far
  capOverlay,     \* history: how the overlay block of this call ended
  capFailedAt,    \* history: the await whose rejection left this call
  capAfter,        \* history: the awaits fulfilled after the overlay block
  \* padImage of the five scripts, called on its own result once more
  padImpl,        \* the script whose padImage is called
  padPc,          \* "start", "padded" (called once), "again" (called twice)
  padImg,         \* the img argument
  padWidth,       \* the targetWidth argument
  padHeight,      \* the targetHeight argument
  padded,         \* what padImage(img, targetWidth, targetHeight) returned
  paddedAgain,     \* what padImage(padded, targetWidth, targetHeight) returned
  \* compareScreenshots of compare-screenshots.ts and of the three variants
  prImpl,         \* the script whose compareScreenshots runs
  prPc,           \* the statement compareScreenshots is at
  img1,           \* the first image as read
  img2,           \* the second image as read
  maxWidth,       \* Math.max(img1.width, img2.width)
  maxHeight,      \* Math.max(img1.height, img2.height)
  padded1,        \* padImage(img1, maxWidth, maxHeight)
  padded2,        \* padImage(img2, maxWidth, maxHeight)
  prDiffPixels,    \* what compareScreenshots hands back
  \* readImage of compare-screenshots.ts and of variant 3, then padImage
  rdImpl,         \* the script whose readImage is called
  rdPc,           \* "start", "read", "threw", "padded"
  rdFile,         \* the file: its extension and what its decoder gives
  rdImage,        \* what readImage returned
  rdPadded,        \* what padImage(rdImage, W, H) returned
  \* compare_optimized.ts, the captures of concurrent tasks and cookieAccepted
  ovVariant,      \* 1: lines 134-161, 2: lines 686-718
  ovPc,           \* per capture, the await captureScreenshot is at
  ovCookieAccepted, \* the module's cookieAccepted flag
  ovSaw,          \* history: per capture, what if (!cookieAccepted) read
  ovClicks,        \* history: the captures whose click() was fulfilled, in order
  \* --- artifact files of the tasks in flight (cleanName, paths) ---
  slUrls,         \* the url list: one urlPath per task, a sequence of characters
  slPc,           \* per task: where it stands
  slFiles,        \* the screenshot directory: artifact path -> task that wrote it last
  slRead,          \* per task: whose files compareScreenshots read, or Null
  \* --- TabPool under concurrent getTab calls ---
  tiSize,         \* this.size
  tiPc,           \* per getTab call: where it stands
  tiI,            \* per getTab call: the i of its initialize loop
  tiTabs,         \* this.tabs: the busy flag of each tab
  tiInitialized,  \* this.isInitialized
  tiContexts,     \* history: number of contexts browser.newContext() created
  tiHeld          \* per getTab call: index of the tab it returned (0: none)

concVars == <<numUrls, limit, mainPc, runPc, nextIdx, executing, raceOn,
              taskPc, attempt, tab, captured, numDiff, taskValue, openPages,
              closedPages, browserOpen, results, summary, reported, attemptLog>>
poolVars == <<poolPc, poolNumItems, poolLimit, poolNext, poolExec, poolRaceOn,
              poolTask, poolResults>>
seqVars == <<seqPc, seqNumPairs, seqIdx, seqStep, seqResults, seqBrowserOpen,
             seqFailed>>
cmpVars == <<cmpPc, cmpNumUrls, cmpIdx, cmpResult, cmpFiles, cmpResults,
             cmpHistory, cmpSummary, cmpStatuses>>
sumVars == <<sumPc, sumDurations, sumIdx, sumAcc, avgDuration>>
tpVars == <<tpPc, tpNumUrls, tpSize, tpTabs, tpInitialized, tpCaller, tpHeld,
           tpAcquired, tpReleased, tpValue, tpOrder, tpResults>>
capVars == <<capVariant, capPc, cookieAccepted, capCalls, capOverlay,
            capFailedAt, capAfter>>
padVars == <<padImpl, padPc, padImg, padWidth, padHeight, padded, paddedAgain>>
pairVars == <<prImpl, prPc, img1, img2, maxWidth, maxHeight, padded1, padded2,
             prDiffPixels>>
readVars == <<rdImpl, rdPc, rdFile, rdImage, rdPadded>>
ovVars == <<ovVariant, ovPc, ovCookieAccepted, ovSaw, ovClicks>>
slVars == <<slUrls, slPc, slFiles, slRead>>
tiVars == <<tiSize, tiPc, tiI, tiTabs, tiInitialized, tiContexts, tiHeld>>
vars == <<concVars, poolVars, seqVars, cmpVars, sumVars, tpVars, capVars, padVars, pairVars, readVars, ovVars, slVars, tiVars>>

\* ---- frames: what a step of one program leaves alone ----
ConcFrame == UNCHANGED <<poolVars, seqVars, cmpVars, sumVars, tpVars, capVars, padVars, pairVars, readVars, ovVars, slVars, tiVars>>
PoolFrame == UNCHANGED <<concVars, seqVars, cmpVars, sumVars, tpVars, capVars, padVars, pairVars, readVars, ovVars, slVars, tiVars>>
SeqFrame == UNCHANGED <<concVars, poolVars, cmpVars, sumVars, tpVars, capVars, padVars, pairVars, readVars, ovVars, slVars, tiVars>>
CmpFrame == UNCHANGED <<concVars, poolVars, seqVars, sumVars, tpVars, capVars, padVars, pairVars, readVars, ovVars, slVars, tiVars>>
SumFrame == UNCHANGED <<concVars, poolVars, seqVars, cmpVars, tpVars, capVars, padVars, pairVars, readVars, ovVars, slVars, tiVars>>
TpFrame == UNCHANGED <<concVars, poolVars, seqVars, cmpVars, sumVars, capVars, padVars, pairVars, readVars, ovVars, slVars, tiVars>>
CapFrame == UNCHANGED <<concVars, poolVars, seqVars, cmpVars, sumVars, tpVars, padVars, pairVars, readVars, ovVars, slVars, tiVars>>
PadFrame == UNCHANGED <<concVars, poolVars, seqVars, cmpVars, sumVars, tpVars, capVars, pairVars, readVars, ovVars, slVars, tiVars>>
PairFrame == UNCHANGED <<concVars, poolVars, seqVars, cmpVars, sumVars, tpVars, capVars, padVars, readVars, ovVars, slVars, tiVars>>
ReadFrame == UNCHANGED <<concVars, poolVars, seqVars, cmpVars, sumVars, tpVars, capVars, padVars, pairVars, ovVars, slVars, tiVars>>
OvFrame == UNCHANGED <<concVars, poolVars, seqVars, cmpVars, sumVars, tpVars, capVars, padVars, pairVars, readVars, slVars, tiVars>>
SlFrame == UNCHANGED <<concVars, poolVars, seqVars, cmpVars, sumVars, tpVars, capVars, padVars, pairVars, readVars, ovVars, tiVars>>
TiFrame == UNCHANGED <<concVars, poolVars, seqVars, cmpVars, sumVars, tpVars, capVars, padVars, pairVars, readVars, ovVars, slVars>>
\* ---- end of frames ----

\* ---- values ----
Null == [null |-> TRUE]
Targets == 1..numUrls
\* numDiffPixels as pixelmatch returns it: 0, or a positive count (the code
\* reads it only through "=== 0" / "> 0" and copies it to the result)
Diffs == {0, MaxDiff}

\* ---- JavaScript array helpers ----
\* Array.prototype.indexOf: 0-based position of the first occurrence, or -1.
IndexOf(arr, x) ==
  IF \E i \in 1..Len(arr) : arr[i] = x
  THEN (CHOOSE i \in 1..Len(arr) : arr[i] = x /\ \A j \in 1..(i-1) : arr[j] # x) - 1
  ELSE -1

\* Array.prototype.splice(start, 1): a negative start counts from the end.
SpliceOne(arr, start) ==
  LET n == Len(arr)
      s == IF start < 0 THEN (IF n + start < 0 THEN 0 ELSE n + start)
           ELSE (IF start > n THEN n ELSE start)
  IN [i \in 1..(IF s < n THEN n - 1 ELSE n) |-> IF i <= s THEN arr[i] ELSE arr[i+1]]

\* The .then callback's removal of p from executing (variant 1):
\* executing.splice(executing.indexOf(p), 1)
RemoveExecuting(arr, t) == SpliceOne(arr, IndexOf(arr, t))

\* The same callback in variant 2: if (idx >= 0) executing.splice(idx, 1)
RemoveExecutingGuarded(arr, t) ==
  LET idx == IndexOf(arr, t)
  IN IF idx >= 0 THEN SpliceOne(arr, idx) ELSE arr

\* results.filter(Boolean) over the values in task order.
RECURSIVE FilterBoolean(_)
FilterBoolean(s) ==
  IF s = <<>> THEN <<>>
  ELSE IF Head(s) = Null THEN FilterBoolean(Tail(s))
       ELSE <<Head(s)>> \o FilterBoolean(Tail(s))

SeqToSet(s) == {s[i] : i \in 1..Len(s)}

\* ---- runWithConcurrencyLimit ----
\* if (executing.length >= limit) await Promise.race(executing)
ShouldWaitOff(len, lim) == len > lim
ShouldWait(len, lim) == len >= lim

\* Promise.race(executing) is settled as soon as one of the raced promises is.
RaceSettledAll(raced) == \A t \in raced : taskPc[t] = "resolved"
RaceSettled(raced) == \E t \in raced : taskPc[t] = "resolved"

\* Promise.all(results) is fulfilled once every p is fulfilled.
AllResolvedNone(n) == TRUE
AllResolved(n) == \A t \in 1..n : taskPc[t] = "resolved"

\* ---- the task closure ----
\* browser.newPage() returns a page object distinct from every other one; the
\* object is named after the call that creates it (task t, iteration a).
FreshPage(t, a) == (t - 1) * MaxAttempts + a

\* const tab = await browser.newPage(), inside the for loop.
AttemptPageReused(held, fresh) == IF held # 0 THEN held ELSE fresh
AttemptPage(held, fresh) == fresh

\* await tab.close(): the page is no longer open
ClosePageLeaks(pages, p) == pages
ClosePage(pages, p) == pages \ {p}

\* captureScreenshot(tab, dev...) throws into the catch block.
AfterCaptureDevSwallowed(ok) == "captureProd"
AfterCaptureDev(ok) == IF ok THEN "captureProd" ELSE "catchClose"

\* captureScreenshot(tab, prod...) throws into the catch block, which closes
\* the page.
AfterCaptureProdUnclosed(ok) == IF ok THEN "compare" ELSE "settled"
AfterCaptureProd(ok) == IF ok THEN "compare" ELSE "catchClose"

\* the object returned on success
MakeResultAlwaysMatch(url, n) == [url |-> url, match |-> TRUE, diffPixels |-> n]
MakeResult(url, n) == [url |-> url, match |-> (n = 0), diffPixels |-> n]

\* if (attempt === 3) return null; and the loop condition attempt <= 3
GivesUp(a) == a = 3 \/ ~(a + 1 <= MaxAttempts)

\* entries of the attempt history
AttemptFailed == [ok |-> FALSE, diff |-> 0]
AttemptOk(d) == [ok |-> TRUE, diff |-> d]

InFlight == {t \in Targets : taskPc[t] \notin {"idle", "settled", "resolved"}}
Terminal(t) == taskPc[t] \in {"settled", "resolved"}


\* ---- initial states ----
ConcOff ==
  /\ numUrls = 0 /\ limit = 1
  /\ mainPc = "off" /\ runPc = "idle" /\ nextIdx = 1
  /\ executing = <<>> /\ raceOn = {}
  /\ taskPc = <<>> /\ attempt = <<>> /\ tab = <<>> /\ captured = <<>>
  /\ numDiff = <<>> /\ taskValue = <<>>
  /\ openPages = {} /\ closedPages = {} /\ browserOpen = FALSE
  /\ results = <<>> /\ summary = Null /\ reported = FALSE
  /\ attemptLog = <<>>

\* main up to the construction of the tasks array: the URL list is read, the
\* persistent context is launched, the login page is opened and closed again.
ConcInit ==
  /\ numUrls \in 0..MaxTargets
  /\ limit \in 1..MaxLimit
  /\ mainPc = "start" /\ runPc = "idle" /\ nextIdx = 1
  /\ executing = <<>> /\ raceOn = {}
  /\ taskPc = [t \in 1..numUrls |-> "idle"]
  /\ attempt = [t \in 1..numUrls |-> 0]
  /\ tab = [t \in 1..numUrls |-> 0]
  /\ captured = [t \in 1..numUrls |-> {}]
  /\ numDiff = [t \in 1..numUrls |-> 0]
  /\ taskValue = [t \in 1..numUrls |-> Null]
  /\ openPages = {} /\ closedPages = {} /\ browserOpen = FALSE
  /\ results = <<>> /\ summary = Null /\ reported = FALSE
  /\ attemptLog = [t \in 1..numUrls |-> <<>>]

\* ---- main of compare_optimized.ts (variants 1 and 2) ----
MainStart ==
  /\ mainPc = "start"
  /\ \/ /\ numUrls = 0                  \* if (!urls.length) return
        /\ mainPc' = "noUrls"
        /\ UNCHANGED <<runPc, browserOpen>>
     \/ /\ numUrls > 0
        /\ mainPc' = "run"
        /\ runPc' = "loop"
        /\ browserOpen' = TRUE
  /\ UNCHANGED <<numUrls, limit, nextIdx, executing, raceOn, taskPc,
                 attempt, tab, captured, numDiff, taskValue, closedPages,
                 openPages, results, summary, reported, attemptLog>>

\* One iteration of the for loop, up to its await (or to the next iteration):
\* task() runs synchronously to its first await, browser.newPage().
StartTask ==
  /\ mainPc = "run" /\ runPc = "loop" /\ nextIdx <= numUrls
  /\ LET t == nextIdx
         ex == Append(executing, t)
     IN /\ taskPc' = [taskPc EXCEPT ![t] = "newPage"]
        /\ attempt' = [attempt EXCEPT ![t] = 1]
        /\ executing' = ex
        /\ IF ShouldWait(Len(ex), limit)
           THEN runPc' = "race" /\ raceOn' = SeqToSet(ex)
           ELSE runPc' = "loop" /\ raceOn' = raceOn
  /\ nextIdx' = nextIdx + 1
  /\ UNCHANGED <<numUrls, limit, mainPc, tab, captured, numDiff,
                 taskValue, closedPages, openPages, browserOpen, results, summary,
                 reported, attemptLog>>

\* await Promise.race(executing) resumes once one of the raced promises is
\* fulfilled.
RaceResume ==
  /\ runPc = "race"
  /\ RaceSettled(raceOn)
  /\ runPc' = "loop"
  /\ raceOn' = {}
  /\ UNCHANGED <<numUrls, limit, mainPc, nextIdx, executing, taskPc,
                 attempt, tab, captured, numDiff, taskValue, closedPages,
                 openPages, browserOpen, results, summary, reported, attemptLog>>

\* The loop is exhausted: return Promise.all(results).
LoopEnd ==
  /\ runPc = "loop" /\ nextIdx > numUrls
  /\ runPc' = "all"
  /\ UNCHANGED <<numUrls, limit, mainPc, nextIdx, executing, raceOn,
                 taskPc, attempt, tab, captured, numDiff, taskValue,
                 closedPages, openPages, browserOpen, results, summary, reported,
                 attemptLog>>

PromiseAllResolve ==
  /\ runPc = "all"
  /\ AllResolved(numUrls)
  /\ runPc' = "returned"
  /\ UNCHANGED <<numUrls, limit, mainPc, nextIdx, executing, raceOn,
                 taskPc, attempt, tab, captured, numDiff, taskValue,
                 closedPages, openPages, browserOpen, results, summary, reported,
                 attemptLog>>

\* const results = (await runWithConcurrencyLimit(...)).filter(Boolean)
MainFilter ==
  /\ mainPc = "run" /\ runPc = "returned"
  /\ results' = FilterBoolean(taskValue)
  /\ mainPc' = "close"
  /\ UNCHANGED <<numUrls, limit, runPc, nextIdx, executing, raceOn,
                 taskPc, attempt, tab, captured, numDiff, taskValue,
                 closedPages, openPages, browserOpen, summary, reported, attemptLog>>

\* await browser.close(): closes the context and every page still open.
BrowserClose ==
  /\ mainPc = "close"
  /\ browserOpen' = FALSE
  /\ openPages' = {}
  /\ closedPages' = closedPages \cup openPages
  /\ mainPc' = "summary"
  /\ UNCHANGED <<numUrls, limit, runPc, nextIdx, executing, raceOn,
                 taskPc, attempt, tab, captured, numDiff, taskValue,
                 results, summary, reported, attemptLog>>

\* the summary literal passed to generatePDFReport
Summarize ==
  /\ mainPc = "summary"
  /\ summary' = [totalUrls |-> Len(results)]
  /\ mainPc' = "report"
  /\ UNCHANGED <<numUrls, limit, runPc, nextIdx, executing, raceOn,
                 taskPc, attempt, tab, captured, numDiff, taskValue,
                 closedPages, openPages, browserOpen, results, reported, attemptLog>>

Report ==
  /\ mainPc = "report"
  /\ reported' = TRUE
  /\ mainPc' = "done"
  /\ UNCHANGED <<numUrls, limit, runPc, nextIdx, executing, raceOn,
                 taskPc, attempt, tab, captured, numDiff, taskValue,
                 closedPages, openPages, browserOpen, results, summary, attemptLog>>

\* ---- the task closure of main ----
\* The scheduler's for loop is parked at an await (or has not been entered,
\* or has returned): only then does the event loop run a task's continuation.
Yielded == runPc # "loop"

\* const tab = await browser.newPage()
NewPage(t) ==
  /\ Yielded
  /\ taskPc[t] = "newPage"
  /\ LET p == AttemptPage(tab[t], FreshPage(t, attempt[t]))
     IN /\ tab' = [tab EXCEPT ![t] = p]
        /\ openPages' = openPages \cup {p}
  /\ taskPc' = [taskPc EXCEPT ![t] = "captureDev"]
  /\ UNCHANGED <<closedPages, numUrls, limit, mainPc, runPc, nextIdx, executing,
                 raceOn, attempt, captured, numDiff, taskValue, browserOpen,
                 results, summary, reported, attemptLog>>

\* await captureScreenshot(tab, devBase + urlPath, paths.dev)
CaptureDev(t) ==
  /\ Yielded
  /\ taskPc[t] = "captureDev"
  /\ \E ok \in BOOLEAN :
       /\ captured' = [captured EXCEPT ![t] = IF ok THEN @ \cup {"dev"} ELSE @]
       /\ taskPc' = [taskPc EXCEPT ![t] = AfterCaptureDev(ok)]
  /\ UNCHANGED <<numUrls, limit, mainPc, runPc, nextIdx, executing,
                 raceOn, attempt, tab, numDiff, taskValue, closedPages, openPages,
                 browserOpen, results, summary, reported, attemptLog>>

\* await captureScreenshot(tab, prodBase + urlPath, paths.prod)
CaptureProd(t) ==
  /\ Yielded
  /\ taskPc[t] = "captureProd"
  /\ \E ok \in BOOLEAN :
       /\ captured' = [captured EXCEPT ![t] = IF ok THEN @ \cup {"prod"} ELSE @]
       /\ taskPc' = [taskPc EXCEPT ![t] = AfterCaptureProd(ok)]
  /\ UNCHANGED <<numUrls, limit, mainPc, runPc, nextIdx, executing,
                 raceOn, attempt, tab, numDiff, taskValue, closedPages, openPages,
                 browserOpen, results, summary, reported, attemptLog>>

\* await compareScreenshots(paths.dev, paths.prod, paths.diff): returns the
\* number of differing pixels, or throws.
Compare(t) ==
  /\ Yielded
  /\ taskPc[t] = "compare"
  /\ \/ /\ \E d \in Diffs : numDiff' = [numDiff EXCEPT ![t] = d]
        /\ captured' = [captured EXCEPT ![t] = @ \cup {"compare"}]
        /\ taskPc' = [taskPc EXCEPT ![t] = "closeOk"]
     \/ /\ taskPc' = [taskPc EXCEPT ![t] = "catchClose"]
        /\ UNCHANGED <<numDiff, captured>>
  /\ UNCHANGED <<numUrls, limit, mainPc, runPc, nextIdx, executing,
                 raceOn, attempt, tab, taskValue, closedPages, openPages,
                 browserOpen, results, summary, reported, attemptLog>>

\* await tab.close(); return { url, match, diffPixels, ... }
CloseOk(t) ==
  /\ Yielded
  /\ taskPc[t] = "closeOk"
  /\ openPages' = ClosePage(openPages, tab[t])
  /\ closedPages' = closedPages \cup {tab[t]}
  /\ tab' = [tab EXCEPT ![t] = 0]
  /\ taskValue' = [taskValue EXCEPT ![t] = MakeResult(t, numDiff[t])]
  /\ attemptLog' = [attemptLog EXCEPT ![t] = Append(@, AttemptOk(numDiff[t]))]
  /\ taskPc' = [taskPc EXCEPT ![t] = "settled"]
  /\ UNCHANGED <<numUrls, limit, mainPc, runPc, nextIdx, executing,
                 raceOn, attempt, captured, numDiff, browserOpen,
                 results, summary, reported>>

\* catch: await tab.close(); if (attempt === 3) return null; else next attempt
CatchClose(t) ==
  /\ Yielded
  /\ taskPc[t] = "catchClose"
  /\ openPages' = ClosePage(openPages, tab[t])
  /\ closedPages' = closedPages \cup {tab[t]}
  /\ attemptLog' = [attemptLog EXCEPT ![t] = Append(@, AttemptFailed)]
  /\ captured' = [captured EXCEPT ![t] = {}]
  /\ IF GivesUp(attempt[t])
     THEN /\ taskValue' = [taskValue EXCEPT ![t] = Null]
          /\ taskPc' = [taskPc EXCEPT ![t] = "settled"]
          /\ tab' = [tab EXCEPT ![t] = 0]
          /\ UNCHANGED attempt
     ELSE /\ attempt' = [attempt EXCEPT ![t] = @ + 1]
          /\ taskPc' = [taskPc EXCEPT ![t] = "newPage"]
          /\ UNCHANGED <<taskValue, tab>>
  /\ UNCHANGED <<numUrls, limit, mainPc, runPc, nextIdx, executing,
                 raceOn, numDiff, browserOpen, results, summary,
                 reported>>

\* task().then(result => { executing.splice(...); return result; })
ThenCallback(t) ==
  /\ Yielded
  /\ taskPc[t] = "settled"
  /\ executing' = RemoveExecuting(executing, t)
  /\ taskPc' = [taskPc EXCEPT ![t] = "resolved"]
  /\ UNCHANGED <<numUrls, limit, mainPc, runPc, nextIdx, raceOn,
                 attempt, tab, captured, numDiff, taskValue, closedPages, openPages,
                 browserOpen, results, summary, reported, attemptLog>>

\* ---- runWithConcurrencyLimit of compare.ts ----
PoolOff ==
  /\ poolPc = "off" /\ poolNumItems = 0 /\ poolLimit = 1 /\ poolNext = 1
  /\ poolExec = <<>> /\ poolRaceOn = {} /\ poolTask = <<>> /\ poolResults = <<>>

PoolInit ==
  /\ poolPc = "loop"
  /\ poolNumItems \in 0..MaxTargets
  /\ poolLimit \in 1..MaxLimit
  /\ poolNext = 1 /\ poolExec = <<>> /\ poolRaceOn = {}
  /\ poolTask = [t \in 1..poolNumItems |-> "idle"]
  /\ poolResults = <<>>

\* if (executing.length >= limit) await Promise.race(executing)
PoolShouldWait(len, lim) == len >= lim

\* fn(item) has been called and its promise is not settled
PoolInFlight == {t \in 1..poolNumItems : poolTask[t] = "running"}

\* One iteration of the for loop: the chain p and e of the item is built (fn
\* itself is called later, from a microtask), e is pushed, and the loop
\* either awaits the race or goes on.
PoolIter ==
  /\ poolPc = "loop" /\ poolNext <= poolNumItems
  /\ LET ex == Append(poolExec, poolNext)
     IN /\ poolExec' = ex
        /\ IF PoolShouldWait(Len(ex), poolLimit)
           THEN poolPc' = "race" /\ poolRaceOn' = SeqToSet(ex)
           ELSE poolPc' = "loop" /\ poolRaceOn' = poolRaceOn
  /\ poolTask' = [poolTask EXCEPT ![poolNext] = "scheduled"]
  /\ poolNext' = poolNext + 1
  /\ UNCHANGED <<poolNumItems, poolLimit, poolResults>>

\* Promise.resolve().then(() => fn(item)): microtasks run in the order they
\* were queued, once the loop has reached an await.
PoolFnStart(t) ==
  /\ poolPc # "loop"
  /\ poolTask[t] = "scheduled"
  /\ \A u \in 1..(t - 1) : poolTask[u] # "scheduled"
  /\ poolTask' = [poolTask EXCEPT ![t] = "running"]
  /\ UNCHANGED <<poolPc, poolNumItems, poolLimit, poolNext, poolExec,
                 poolRaceOn, poolResults>>

\* the promise fn(item) returned is fulfilled or rejected
PoolFnSettle(t) ==
  /\ poolPc # "loop"
  /\ poolTask[t] = "running"
  /\ \E ok \in BOOLEAN :
       poolTask' = [poolTask EXCEPT ![t] = IF ok THEN "fulfilled" ELSE "rejected"]
  /\ UNCHANGED <<poolPc, poolNumItems, poolLimit, poolNext, poolExec,
                 poolRaceOn, poolResults>>

\* .then(result => { results.push(result); })
PoolPush(t) ==
  /\ poolPc # "loop"
  /\ poolTask[t] = "fulfilled"
  /\ poolResults' = Append(poolResults, t)
  /\ poolTask' = [poolTask EXCEPT ![t] = "pushed"]
  /\ UNCHANGED <<poolPc, poolNumItems, poolLimit, poolNext, poolExec,
                 poolRaceOn>>

\* const e = p.then(() => { executing.splice(executing.indexOf(e), 1); })
PoolSplice(t) ==
  /\ poolPc # "loop"
  /\ poolTask[t] = "pushed"
  /\ poolExec' = SpliceOne(poolExec, IndexOf(poolExec, t))
  /\ poolTask' = [poolTask EXCEPT ![t] = "done"]
  /\ UNCHANGED <<poolPc, poolNumItems, poolLimit, poolNext, poolRaceOn,
                 poolResults>>

\* await Promise.race(executing): resumes with the first raced promise that
\* settles; a rejected one makes runWithConcurrencyLimit throw.
PoolRaceResume ==
  /\ poolPc = "race"
  /\ \/ /\ \E t \in poolRaceOn : poolTask[t] = "done"
        /\ poolPc' = "loop"
     \/ /\ \E t \in poolRaceOn : poolTask[t] = "rejected"
        /\ poolPc' = "thrown"
  /\ poolRaceOn' = {}
  /\ UNCHANGED <<poolNumItems, poolLimit, poolNext, poolExec, poolTask,
                 poolResults>>

\* the loop is exhausted: await Promise.all(executing)
PoolLoopEnd ==
  /\ poolPc = "loop" /\ poolNext > poolNumItems
  /\ poolPc' = "all"
  /\ poolRaceOn' = SeqToSet(poolExec)
  /\ UNCHANGED <<poolNumItems, poolLimit, poolNext, poolExec, poolTask,
                 poolResults>>

\* Promise.all is fulfilled when all are, and rejects when one does;
\* then: return results
PoolAllSettle ==
  /\ poolPc = "all"
  /\ \/ /\ \A t \in poolRaceOn : poolTask[t] = "done"
        /\ poolPc' = "returned"
     \/ /\ \E t \in poolRaceOn : poolTask[t] = "rejected"
        /\ poolPc' = "thrown"
  /\ poolRaceOn' = {}
  /\ UNCHANGED <<poolNumItems, poolLimit, poolNext, poolExec, poolTask,
                 poolResults>>

\* ---- the programs that are not running under a specification ----
SeqOff ==
  /\ seqPc = "off" /\ seqNumPairs = 0 /\ seqIdx = 1 /\ seqStep = "none"
  /\ seqResults = <<>> /\ seqBrowserOpen = FALSE /\ seqFailed = 0

CmpOff ==
  /\ cmpPc = "off" /\ cmpNumUrls = 0 /\ cmpIdx = 1 /\ cmpResult = Null
  /\ cmpFiles = {} /\ cmpResults = <<>>
  /\ cmpHistory = <<>> /\ cmpSummary = Null /\ cmpStatuses = <<>>

SumOff ==
  /\ sumPc = "off" /\ sumDurations = <<>> /\ sumIdx = 1 /\ sumAcc = 0
  /\ avgDuration = Null

TpOff ==
  /\ tpPc = "off" /\ tpNumUrls = 0 /\ tpSize = 1 /\ tpTabs = <<>>
  /\ tpInitialized = FALSE /\ tpCaller = <<>> /\ tpHeld = <<>>
  /\ tpAcquired = <<>> /\ tpReleased = <<>>
  /\ tpValue = <<>> /\ tpOrder = <<>> /\ tpResults = <<>>

CapOff ==
  /\ capVariant = 1 /\ capPc = "off" /\ cookieAccepted = FALSE /\ capCalls = 0
  /\ capOverlay = "none" /\ capFailedAt = "none" /\ capAfter = <<>>

PadOff ==
  /\ padImpl = "none" /\ padPc = "off" /\ padImg = Null /\ padWidth = 0
  /\ padHeight = 0 /\ padded = Null /\ paddedAgain = Null

PairOff ==
  /\ prImpl = "none" /\ prPc = "off" /\ img1 = Null /\ img2 = Null
  /\ maxWidth = 0 /\ maxHeight = 0 /\ padded1 = Null /\ padded2 = Null
  /\ prDiffPixels = Null

ReadOff ==
  /\ rdImpl = "none" /\ rdPc = "off" /\ rdFile = Null /\ rdImage = Null
  /\ rdPadded = Null

OvOff ==
  /\ ovVariant = 1 /\ ovPc = <<>> /\ ovCookieAccepted = FALSE /\ ovSaw = <<>>
  /\ ovClicks = <<>>

SlOff ==
  /\ slUrls = <<>> /\ slPc = <<>> /\ slFiles = <<>> /\ slRead = <<>>

TiOff ==
  /\ tiSize = 0 /\ tiPc = <<>> /\ tiI = <<>> /\ tiTabs = <<>>
  /\ tiInitialized = FALSE /\ tiContexts = 0 /\ tiHeld = <<>>

\* ---- all programs but one are not running ----
OffButRun == SeqOff /\ CmpOff /\ SumOff /\ TpOff /\ CapOff /\ PadOff /\ PairOff /\ ReadOff /\ OvOff /\ SlOff /\ TiOff
OffButSeq == ConcOff /\ PoolOff /\ CmpOff /\ SumOff /\ TpOff /\ CapOff /\ PadOff /\ PairOff /\ ReadOff /\ OvOff /\ SlOff /\ TiOff
OffButCmp == ConcOff /\ PoolOff /\ SeqOff /\ SumOff /\ TpOff /\ CapOff /\ PadOff /\ PairOff /\ ReadOff /\ OvOff /\ SlOff /\ TiOff
OffButSum == ConcOff /\ PoolOff /\ SeqOff /\ CmpOff /\ TpOff /\ CapOff /\ PadOff /\ PairOff /\ ReadOff /\ OvOff /\ SlOff /\ TiOff
OffButTp == ConcOff /\ PoolOff /\ SeqOff /\ CmpOff /\ SumOff /\ CapOff /\ PadOff /\ PairOff /\ ReadOff /\ OvOff /\ SlOff /\ TiOff
OffButCap == ConcOff /\ PoolOff /\ SeqOff /\ CmpOff /\ SumOff /\ TpOff /\ PadOff /\ PairOff /\ ReadOff /\ OvOff /\ SlOff /\ TiOff
OffButPad == ConcOff /\ PoolOff /\ SeqOff /\ CmpOff /\ SumOff /\ TpOff /\ CapOff /\ PairOff /\ ReadOff /\ OvOff /\ SlOff /\ TiOff
OffButPair == ConcOff /\ PoolOff /\ SeqOff /\ CmpOff /\ SumOff /\ TpOff /\ CapOff /\ PadOff /\ ReadOff /\ OvOff /\ SlOff /\ TiOff
OffButRead == ConcOff /\ PoolOff /\ SeqOff /\ CmpOff /\ SumOff /\ TpOff /\ CapOff /\ PadOff /\ PairOff /\ OvOff /\ SlOff /\ TiOff
OffButOv == ConcOff /\ PoolOff /\ SeqOff /\ CmpOff /\ SumOff /\ TpOff /\ CapOff /\ PadOff /\ PairOff /\ ReadOff /\ SlOff /\ TiOff
OffButSl == ConcOff /\ PoolOff /\ SeqOff /\ CmpOff /\ SumOff /\ TpOff /\ CapOff /\ PadOff /\ PairOff /\ ReadOff /\ OvOff /\ TiOff
OffButTi == ConcOff /\ PoolOff /\ SeqOff /\ CmpOff /\ SumOff /\ TpOff /\ CapOff /\ PadOff /\ PairOff /\ ReadOff /\ OvOff /\ SlOff
\* ---- end of not running ----

\* ---- specification of the bounded-concurrency runs ----
Init ==
  /\ \/ ConcInit /\ PoolOff
     \/ ConcOff /\ PoolInit
  /\ OffButRun

Next ==
  \/ MainStart /\ ConcFrame
  \/ StartTask /\ ConcFrame
  \/ RaceResume /\ ConcFrame
  \/ LoopEnd /\ ConcFrame
  \/ PromiseAllResolve /\ ConcFrame
  \/ MainFilter /\ ConcFrame
  \/ BrowserClose /\ ConcFrame
  \/ Summarize /\ ConcFrame
  \/ Report /\ ConcFrame
  \/ (\E t \in Targets : NewPage(t)) /\ ConcFrame
  \/ (\E t \in Targets : CaptureDev(t)) /\ ConcFrame
  \/ (\E t \in Targets : CaptureProd(t)) /\ ConcFrame
  \/ (\E t \in Targets : Compare(t)) /\ ConcFrame
  \/ (\E t \in Targets : CloseOk(t)) /\ ConcFrame
  \/ (\E t \in Targets : CatchClose(t)) /\ ConcFrame
  \/ (\E t \in Targets : ThenCallback(t)) /\ ConcFrame
  \/ PoolIter /\ PoolFrame
  \/ PoolRaceResume /\ PoolFrame
  \/ PoolLoopEnd /\ PoolFrame
  \/ PoolAllSettle /\ PoolFrame
  \/ (\E t \in 1..poolNumItems : PoolFnStart(t)) /\ PoolFrame
  \/ (\E t \in 1..poolNumItems : PoolFnSettle(t)) /\ PoolFrame
  \/ (\E t \in 1..poolNumItems : PoolPush(t)) /\ PoolFrame
  \/ (\E t \in 1..poolNumItems : PoolSplice(t)) /\ PoolFrame

Spec == Init /\ [][Next]_vars

\* The event loop runs every continuation that is ready: the resumption of
\* the scheduler's loop, its next iteration and the .then callbacks. Nothing
\* is assumed of the tasks themselves, which may stay in a step for ever.
SchedFair ==
  /\ WF_vars(RaceResume /\ ConcFrame)
  /\ WF_vars(StartTask /\ ConcFrame)
  /\ WF_vars((\E t \in Targets : ThenCallback(t))
               /\ ConcFrame)

SpecSched == Init /\ [][Next]_vars /\ SchedFair

\* Every step the program waits for returns or throws in the end, so that
\* whatever is enabled is eventually taken.
SpecLive == Init /\ [][Next]_vars /\ WF_vars(Next)


\* ---- main of compare_optimized.ts, sequential variant 3 ----
SeqInit ==
  /\ seqPc = "launch" /\ seqNumPairs \in 0..MaxPairs /\ seqIdx = 1
  /\ seqStep = "none" /\ seqResults = <<>> /\ seqBrowserOpen = FALSE
  /\ seqFailed = 0

\* browser = await chromium.launch(...); newContext(); newPage()
SeqLaunch ==
  /\ seqPc = "launch"
  /\ \/ seqBrowserOpen' = TRUE /\ seqPc' = "login"
     \/ seqPc' = "exit1" /\ UNCHANGED seqBrowserOpen
  /\ UNCHANGED <<seqNumPairs, seqIdx, seqStep, seqResults, seqFailed>>

\* await login(page)
SeqLogin ==
  /\ seqPc = "login"
  /\ \/ seqPc' = "pairs"
     \/ seqPc' = "exit1"
  /\ UNCHANGED <<seqNumPairs, seqIdx, seqStep, seqResults, seqBrowserOpen,
                 seqFailed>>

\* const pairs = getScreenshotPairs(); const results = []
SeqGetPairs ==
  /\ seqPc = "pairs"
  /\ seqPc' = "loop" /\ seqIdx' = 1 /\ seqStep' = "stageGoto"
  /\ UNCHANGED <<seqNumPairs, seqResults, seqBrowserOpen, seqFailed>>

\* The step after an await of the loop body returned.
SeqAfter(step) ==
  CASE step = "stageGoto" -> "stageShot"
    [] step = "stageShot" -> "prodGoto"
    [] step = "prodGoto" -> "prodShot"
    [] step = "prodShot" -> "compare"

\* takeScreenshots(page, url, path): page.goto, then page.screenshot. A throw
\* is not caught in the loop: it reaches main's catch, process.exit(1).
SeqCapture ==
  /\ seqPc = "loop" /\ seqIdx <= seqNumPairs
  /\ seqStep \in {"stageGoto", "stageShot", "prodGoto", "prodShot"}
  /\ \/ /\ seqStep' = SeqAfter(seqStep)
        /\ UNCHANGED <<seqPc, seqFailed>>
     \/ /\ seqPc' = "exit1"
        /\ seqFailed' = seqIdx
        /\ UNCHANGED seqStep
  /\ UNCHANGED <<seqNumPairs, seqIdx, seqResults, seqBrowserOpen>>

\* const diffPixels = compareScreenshots(...); results.push({...pair, diffPixels})
SeqCompare ==
  /\ seqPc = "loop" /\ seqIdx <= seqNumPairs /\ seqStep = "compare"
  /\ \/ /\ \E d \in Diffs :
             seqResults' = Append(seqResults, [name |-> seqIdx, diffPixels |-> d])
        /\ seqIdx' = seqIdx + 1
        /\ seqStep' = "stageGoto"
        /\ UNCHANGED <<seqPc, seqFailed>>
     \/ /\ seqPc' = "exit1"
        /\ seqFailed' = seqIdx
        /\ UNCHANGED <<seqResults, seqIdx, seqStep>>
  /\ UNCHANGED <<seqNumPairs, seqBrowserOpen>>

\* await generatePDFReport(results)
SeqReport ==
  /\ seqPc = "loop" /\ seqIdx > seqNumPairs
  /\ \/ seqPc' = "finally"
     \/ seqPc' = "exit1"
  /\ seqStep' = "none"
  /\ UNCHANGED <<seqNumPairs, seqIdx, seqResults, seqBrowserOpen, seqFailed>>

\* finally { if (browser) await browser.close() }
SeqFinally ==
  /\ seqPc = "finally"
  /\ seqBrowserOpen' = FALSE
  /\ seqPc' = "done"
  /\ UNCHANGED <<seqNumPairs, seqIdx, seqStep, seqResults, seqFailed>>

InitSeq == SeqInit /\ OffButSeq

NextSeq ==
  \/ SeqLaunch /\ SeqFrame
  \/ SeqLogin /\ SeqFrame
  \/ SeqGetPairs /\ SeqFrame
  \/ SeqCapture /\ SeqFrame
  \/ SeqCompare /\ SeqFrame
  \/ SeqReport /\ SeqFrame
  \/ SeqFinally /\ SeqFrame

SpecSeq == InitSeq /\ [][NextSeq]_vars


\* ---- main of compare.ts ----
CmpInit ==
  /\ cmpPc = "start" /\ cmpNumUrls \in 0..MaxCmpUrls /\ cmpIdx = 1
  /\ cmpResult = Null /\ cmpFiles = {} /\ cmpResults = <<>>
  /\ cmpHistory = [i \in 1..cmpNumUrls |-> {}]
  /\ cmpSummary = Null /\ cmpStatuses = <<>>

\* status: r.error ? 'error' : (r.isDifferent ? 'failed' : 'passed')
StatusOf(r) ==
  IF r.error # <<>> THEN "error" ELSE IF r.isDifferent THEN "failed" ELSE "passed"

\* the counts of the report's summary block
CountWhere(rs, P(_)) == Cardinality({i \in 1..Len(rs) : P(rs[i])})
IsPassed(r) == r.error = <<>> /\ ~r.isDifferent
IsFailed(r) == r.error = <<>> /\ r.isDifferent
IsError(r) == r.error # <<>>

\* if (urls.length === 0) process.exit(1); else launch the context
CmpStart ==
  /\ cmpPc = "start"
  /\ \/ cmpNumUrls = 0 /\ cmpPc' = "exit1"
     \/ cmpNumUrls > 0 /\ cmpPc' = "begin"
  /\ UNCHANGED <<cmpNumUrls, cmpIdx, cmpResult, cmpFiles, cmpResults,
                 cmpHistory, cmpSummary, cmpStatuses>>

\* const result = { url, environment, devPath: '', prodPath: '', diffPath: '',
\*                  isDifferent: false, diffPixels: 0 }
CmpBegin ==
  /\ cmpPc = "begin" /\ cmpIdx <= cmpNumUrls
  /\ cmpResult' = [url |-> cmpIdx, devPath |-> "", prodPath |-> "",
                   diffPath |-> "", isDifferent |-> FALSE, diffPixels |-> 0,
                   error |-> <<>>]
  /\ cmpPc' = "devNav"
  /\ UNCHANGED <<cmpNumUrls, cmpIdx, cmpFiles, cmpResults, cmpHistory,
                 cmpSummary, cmpStatuses>>

\* result.devPath = ...; success = await ensureLoggedInAndNavigate(page, devUrl)
CmpDevNav ==
  /\ cmpPc = "devNav"
  /\ \/ /\ cmpResult' = [cmpResult EXCEPT !.devPath = "dev"]
        /\ cmpPc' = "devShot"
        /\ UNCHANGED cmpHistory
     \/ /\ cmpResult' = [cmpResult EXCEPT !.devPath = "dev",
                                          !.error = <<"Failed to navigate to dev URL">>]
        /\ cmpHistory' = [cmpHistory EXCEPT ![cmpIdx] = @ \cup {"devNav"}]
        /\ cmpPc' = "prodNav"
  /\ UNCHANGED <<cmpNumUrls, cmpIdx, cmpFiles, cmpResults, cmpSummary,
                 cmpStatuses>>

\* await captureScreenshot(page, devUrl, result.devPath): returns false when
\* page.screenshot throws; main does not read the returned value.
CmpDevShot ==
  /\ cmpPc = "devShot"
  /\ \/ /\ cmpFiles' = cmpFiles \cup {<<cmpIdx, "dev">>}
        /\ UNCHANGED cmpHistory
     \/ /\ cmpHistory' = [cmpHistory EXCEPT ![cmpIdx] = @ \cup {"devShot"}]
        /\ UNCHANGED cmpFiles
  /\ cmpPc' = "prodNav"
  /\ UNCHANGED <<cmpNumUrls, cmpIdx, cmpResult, cmpResults, cmpSummary,
                 cmpStatuses>>

CmpProdNav ==
  /\ cmpPc = "prodNav"
  /\ \/ /\ cmpResult' = [cmpResult EXCEPT !.prodPath = "prod"]
        /\ cmpPc' = "prodShot"
        /\ UNCHANGED cmpHistory
     \/ /\ cmpResult' = [cmpResult EXCEPT !.prodPath = "prod",
                            !.error = @ \o <<"Failed to navigate to prod URL">>]
        /\ cmpHistory' = [cmpHistory EXCEPT ![cmpIdx] = @ \cup {"prodNav"}]
        /\ cmpPc' = "check"
  /\ UNCHANGED <<cmpNumUrls, cmpIdx, cmpFiles, cmpResults, cmpSummary,
                 cmpStatuses>>

CmpProdShot ==
  /\ cmpPc = "prodShot"
  /\ \/ /\ cmpFiles' = cmpFiles \cup {<<cmpIdx, "prod">>}
        /\ UNCHANGED cmpHistory
     \/ /\ cmpHistory' = [cmpHistory EXCEPT ![cmpIdx] = @ \cup {"prodShot"}]
        /\ UNCHANGED cmpFiles
  /\ cmpPc' = "check"
  /\ UNCHANGED <<cmpNumUrls, cmpIdx, cmpResult, cmpResults, cmpSummary,
                 cmpStatuses>>

\* if (result.devPath && result.prodPath && existsSync(dev) && existsSync(prod))
CmpBothTaken ==
  /\ cmpResult.devPath # "" /\ cmpResult.prodPath # ""
  /\ <<cmpIdx, "dev">> \in cmpFiles /\ <<cmpIdx, "prod">> \in cmpFiles

CmpCheck ==
  /\ cmpPc = "check"
  /\ IF CmpBothTaken
     THEN /\ cmpResult' = [cmpResult EXCEPT !.diffPath = "diff"]
          /\ cmpPc' = "compare"
     ELSE /\ cmpPc' = "push"
          /\ UNCHANGED cmpResult
  /\ UNCHANGED <<cmpNumUrls, cmpIdx, cmpFiles, cmpResults, cmpHistory,
                 cmpSummary, cmpStatuses>>

\* compareScreenshots: { isDifferent: diffPixels > 0, diffPixels }, or, when
\* anything in it throws, { isDifferent: true, diffPixels: 0 }
CmpCompare ==
  /\ cmpPc = "compare"
  /\ \/ /\ \E d \in Diffs :
             cmpResult' = [cmpResult EXCEPT !.isDifferent = (d > 0),
                                            !.diffPixels = d]
        /\ UNCHANGED cmpHistory
     \/ /\ cmpResult' = [cmpResult EXCEPT !.isDifferent = TRUE, !.diffPixels = 0]
        /\ cmpHistory' = [cmpHistory EXCEPT ![cmpIdx] = @ \cup {"compare"}]
  /\ cmpPc' = "push"
  /\ UNCHANGED <<cmpNumUrls, cmpIdx, cmpFiles, cmpResults, cmpSummary,
                 cmpStatuses>>

\* results.push(result)
CmpPush ==
  /\ cmpPc = "push"
  /\ cmpResults' = Append(cmpResults, cmpResult)
  /\ cmpIdx' = cmpIdx + 1
  /\ cmpResult' = Null
  /\ cmpPc' = "begin"
  /\ UNCHANGED <<cmpNumUrls, cmpFiles, cmpHistory, cmpSummary, cmpStatuses>>

\* await generateHTMLReport(results); testRunInfo.results = results.map(...)
CmpReport ==
  /\ cmpPc = "begin" /\ cmpIdx > cmpNumUrls
  /\ cmpSummary' = [total |-> Len(cmpResults),
                    passed |-> CountWhere(cmpResults, IsPassed),
                    failed |-> CountWhere(cmpResults, IsFailed),
                    errors |-> CountWhere(cmpResults, IsError)]
  /\ cmpStatuses' = [i \in 1..Len(cmpResults) |-> StatusOf(cmpResults[i])]
  /\ cmpPc' = "close"
  /\ UNCHANGED <<cmpNumUrls, cmpIdx, cmpResult, cmpFiles, cmpResults,
                 cmpHistory>>

\* finally { await context.close() }
CmpClose ==
  /\ cmpPc = "close"
  /\ cmpPc' = "done"
  /\ UNCHANGED <<cmpNumUrls, cmpIdx, cmpResult, cmpFiles, cmpResults,
                 cmpHistory, cmpSummary, cmpStatuses>>

InitCmp == CmpInit /\ OffButCmp

NextCmp ==
  \/ CmpStart /\ CmpFrame
  \/ CmpBegin /\ CmpFrame
  \/ CmpDevNav /\ CmpFrame
  \/ CmpDevShot /\ CmpFrame
  \/ CmpProdNav /\ CmpFrame
  \/ CmpProdShot /\ CmpFrame
  \/ CmpCheck /\ CmpFrame
  \/ CmpCompare /\ CmpFrame
  \/ CmpPush /\ CmpFrame
  \/ CmpReport /\ CmpFrame
  \/ CmpClose /\ CmpFrame

SpecCmp == InitCmp /\ [][NextCmp]_vars


\* ---- the average duration of the summary (compare_optimized.ts main) ----
\* results holds the tasks' values that are not null; it is empty when every
\* target has failed its three attempts. duration is (Date.now() -
\* taskStartTime) / 1000, here a whole number of seconds.
SeqsUpTo(S, n) == UNION {[1..k -> S] : k \in 0..n}

SumInit ==
  /\ sumPc = "reduce"
  /\ sumDurations \in SeqsUpTo(0..MaxDuration, MaxResults)
  /\ sumIdx = 1 /\ sumAcc = 0
  /\ avgDuration = Null

\* a / b of two JavaScript numbers, for whole a >= 0 and b >= 0: 0 / 0 is NaN,
\* a / 0 is Infinity, and the quotient is kept as the fraction a / b.
NaN == [kind |-> "NaN", num |-> 0, den |-> 0]
Infinity == [kind |-> "Infinity", num |-> 0, den |-> 0]
Fraction(a, b) == [kind |-> "number", num |-> a, den |-> b]
Divide(a, b) ==
  IF b = 0 THEN (IF a = 0 THEN NaN ELSE Infinity) ELSE Fraction(a, b)

\* results.reduce((sum, r) => sum + r.duration, 0): one call of the callback
SumReduceStep ==
  /\ sumPc = "reduce" /\ sumIdx <= Len(sumDurations)
  /\ sumAcc' = sumAcc + sumDurations[sumIdx]
  /\ sumIdx' = sumIdx + 1
  /\ UNCHANGED <<sumPc, sumDurations, avgDuration>>

\* const avgDuration = results.reduce(...) / results.length
SumDivide ==
  /\ sumPc = "reduce" /\ sumIdx > Len(sumDurations)
  /\ avgDuration' = Divide(sumAcc, Len(sumDurations))
  /\ sumPc' = "report"
  /\ UNCHANGED <<sumDurations, sumIdx, sumAcc>>

\* await generatePDFReport(results, { totalUrls, avgDuration, ... }, ...)
SumReport ==
  /\ sumPc = "report"
  /\ sumPc' = "done"
  /\ UNCHANGED <<sumDurations, sumIdx, sumAcc, avgDuration>>

InitSum == SumInit /\ OffButSum

NextSum ==
  \/ SumReduceStep /\ SumFrame
  \/ SumDivide /\ SumFrame
  \/ SumReport /\ SumFrame

SpecSum == InitSum /\ [][NextSum]_vars

\* ---- processUrls and TabPool (huperlink-list.ts) ----
\* Caller 0 is ensureLogin, caller i is extractLinks(tabPool, urls[i-1], i-1).
Callers == 0..tpNumUrls
PageWork == {"goto", "handleLogin", "evalRemove", "evalLinks"}

TpInit ==
  /\ tpPc = "start"
  /\ tpNumUrls \in 1..MaxTpUrls       \* main returns before processUrls if there is no URL
  /\ tpSize \in 1..MaxTabs
  /\ tpTabs = <<>> /\ tpInitialized = FALSE
  /\ tpCaller = [c \in 0..tpNumUrls |-> "idle"]
  /\ tpHeld = [c \in 0..tpNumUrls |-> 0]
  /\ tpAcquired = [c \in 0..tpNumUrls |-> 0]
  /\ tpReleased = [c \in 0..tpNumUrls |-> 0]
  /\ tpValue = [c \in 0..tpNumUrls |-> Null]
  /\ tpOrder = <<>>
  /\ tpResults = <<>>

\* this.tabs.find((t) => !t.busy): the first tab that is not busy (0: none)
FindAnyTab(tabs) == IF Len(tabs) > 0 THEN 1 ELSE 0
FindFreeTab(tabs) ==
  IF \E i \in 1..Len(tabs) : ~tabs[i]
  THEN CHOOSE i \in 1..Len(tabs) : ~tabs[i] /\ \A j \in 1..(i - 1) : tabs[j]
  ELSE 0

\* releaseTab(tab): findIndex by page, then tabs[tabIndex].busy = false
ReleaseTabNoop(tabs, i) == tabs
ReleaseTab(tabs, i) ==
  IF i \in 1..Len(tabs) THEN [tabs EXCEPT ![i] = FALSE] ELSE tabs

\* processUrls: chromium.launch, new TabPool(browser, size), ensureLogin is
\* called and runs into getTab, initialize and its first await.
TpStart ==
  /\ tpPc = "start"
  /\ tpPc' = "login"
  /\ tpCaller' = [tpCaller EXCEPT ![0] = "newContext"]
  /\ UNCHANGED <<tpNumUrls, tpSize, tpTabs, tpInitialized, tpHeld, tpAcquired,
                 tpReleased,
                 tpValue, tpOrder, tpResults>>

\* initialize: this.context = await this.browser.newContext()
TpNewContext ==
  /\ tpCaller[0] = "newContext"
  /\ tpCaller' = [tpCaller EXCEPT ![0] = "newPage"]
  /\ UNCHANGED <<tpPc, tpNumUrls, tpSize, tpTabs, tpInitialized, tpHeld,
                 tpAcquired, tpReleased,
                 tpValue, tpOrder, tpResults>>

\* initialize: const page = await this.context.newPage();
\* this.tabs.push({ page, busy: false }); after the last, isInitialized = true
TpNewPage ==
  /\ tpCaller[0] = "newPage"
  /\ tpTabs' = Append(tpTabs, FALSE)
  /\ IF Len(tpTabs) + 1 < tpSize
     THEN UNCHANGED <<tpInitialized, tpCaller>>
     ELSE /\ tpInitialized' = TRUE
          /\ tpCaller' = [tpCaller EXCEPT ![0] = "waiting"]
  /\ UNCHANGED <<tpPc, tpNumUrls, tpSize, tpHeld, tpAcquired, tpReleased,
                 tpValue, tpOrder, tpResults>>

\* getTab after an await (of initialize, or of the 100 ms timer): find a tab
\* that is not busy, mark it busy and return it, or sleep again.
TpGetTab(c) ==
  /\ tpCaller[c] \in {"waiting", "sleeping"}
  /\ tpInitialized
  /\ LET i == FindFreeTab(tpTabs)
     IN IF i # 0
        THEN /\ tpTabs' = [tpTabs EXCEPT ![i] = TRUE]
             /\ tpHeld' = [tpHeld EXCEPT ![c] = i]
             /\ tpAcquired' = [tpAcquired EXCEPT ![c] = @ + 1]
             /\ tpCaller' = [tpCaller EXCEPT ![c] = "goto"]
        ELSE /\ tpCaller[c] = "waiting"
             /\ tpCaller' = [tpCaller EXCEPT ![c] = "sleeping"]
             /\ UNCHANGED <<tpTabs, tpHeld, tpAcquired>>
  /\ UNCHANGED <<tpPc, tpNumUrls, tpSize, tpInitialized, tpReleased,
                 tpValue, tpOrder, tpResults>>

\* finally { tabPool.releaseTab(tab); } of ensureLogin and extractLinks
TpFinally(c, outcome) ==
  /\ tpTabs' = ReleaseTab(tpTabs, tpHeld[c])
  /\ tpHeld' = [tpHeld EXCEPT ![c] = 0]
  /\ tpReleased' = [tpReleased EXCEPT ![c] = @ + 1]
  /\ tpCaller' = [tpCaller EXCEPT ![c] = outcome]

\* ensureLogin: await tab.page.goto(signin); the sign-in page asks for
\* handleLogin, any other page ends ensureLogin; a throw is rethrown after
\* the finally.
TpLoginGoto ==
  /\ tpCaller[0] = "goto"
  /\ \/ /\ tpCaller' = [tpCaller EXCEPT ![0] = "handleLogin"]
        /\ UNCHANGED <<tpTabs, tpHeld, tpReleased>>
     \/ TpFinally(0, "done")
     \/ TpFinally(0, "thrown")
  /\ UNCHANGED <<tpPc, tpNumUrls, tpSize, tpInitialized, tpAcquired,
                 tpValue, tpOrder, tpResults>>

\* ensureLogin: await handleLogin(tab.page) returns or throws
TpHandleLogin ==
  /\ tpCaller[0] = "handleLogin"
  /\ \/ TpFinally(0, "done")
     \/ TpFinally(0, "thrown")
  /\ UNCHANGED <<tpPc, tpNumUrls, tpSize, tpInitialized, tpAcquired,
                 tpValue, tpOrder, tpResults>>

\* processUrls: urls.map(... extractLinks(tabPool, u, index)): every
\* extractLinks runs into getTab and awaits initialize; then Promise.all.
TpMap ==
  /\ tpPc = "login" /\ tpCaller[0] = "done"
  /\ tpPc' = "all"
  /\ tpCaller' = [c \in Callers |-> IF c = 0 THEN "done" ELSE "waiting"]
  /\ UNCHANGED <<tpNumUrls, tpSize, tpTabs, tpInitialized, tpHeld, tpAcquired,
                 tpReleased,
                 tpValue, tpOrder, tpResults>>

\* urls[index] of the call c = index + 1
Url(c) == <<"url", c>>

\* What the two page.evaluate calls find when they succeed: the internal and
\* the external links, already without duplicates ([...new Set(...)]).
FoundLinks ==
  {[internal |-> <<>>, external |-> <<>>],
   [internal |-> <<"in1", "in2">>, external |-> <<"ex1">>]}

\* the ExtractedLinks object extractLinks returns, from its try or its catch
Extracted(index, url, internalLinks, externalLinks) ==
  [index |-> index, url |-> url, internalLinks |-> internalLinks,
   externalLinks |-> externalLinks]

RECURSIVE Join(_)
\* links.join("\n") as a sequence of pieces: "" for no link
Join(links) ==
  IF links = <<>> THEN <<>>
  ELSE IF Len(links) = 1 THEN <<links[1]>>
  ELSE <<links[1], "\n">> \o Join(Tail(links))

\* await Promise.all(promises): the fulfilment values in the order of the
\* promises (of the urls), whatever the order in which they were fulfilled
PromiseAllBySettling(values, order) == [i \in 1..Len(order) |-> values[order[i]]]
PromiseAll(values, order) == [i \in 1..Len(order) |-> values[i]]

\* for (const result of batchResults) results.push({ sourceUrl, summary,
\* internalLinks, externalLinks })
Rows(batchResults) ==
  [i \in 1..Len(batchResults) |->
     [sourceUrl |-> batchResults[i].url,
      summary |-> <<Len(batchResults[i].internalLinks),
                    Len(batchResults[i].externalLinks)>>,
      internalLinks |-> Join(batchResults[i].internalLinks),
      externalLinks |-> Join(batchResults[i].externalLinks)]]

\* the step that follows a page step of extractLinks
AfterPageStep(pc) ==
  CASE pc = "goto" -> "evalRemove"
    [] pc = "evalRemove" -> "evalLinks"
    [] OTHER -> "return"

\* extractLinks: goto, evaluate (remove header and footer), evaluate (links).
\* Each returns or throws; after the last, and in the catch, the result is
\* returned through the finally.
TpPageStep(c) ==
  /\ c # 0
  /\ tpCaller[c] \in {"goto", "evalRemove", "evalLinks"}
  /\ \/ /\ AfterPageStep(tpCaller[c]) # "return"
        /\ tpCaller' = [tpCaller EXCEPT ![c] = AfterPageStep(@)]
        /\ UNCHANGED <<tpTabs, tpHeld, tpReleased, tpValue, tpOrder>>
     \/ /\ AfterPageStep(tpCaller[c]) = "return"
        /\ \E found \in FoundLinks :
             tpValue' = [tpValue EXCEPT ![c] =
                          Extracted(c - 1, Url(c), found.internal, found.external)]
        /\ tpOrder' = Append(tpOrder, c)
        /\ TpFinally(c, "done")
     \/ /\ tpValue' = [tpValue EXCEPT ![c] = Extracted(c - 1, Url(c), <<>>, <<>>)]
        /\ tpOrder' = Append(tpOrder, c)
        /\ TpFinally(c, "caught")
  /\ UNCHANGED <<tpPc, tpNumUrls, tpSize, tpInitialized, tpAcquired, tpResults>>

\* const batchResults = await Promise.all(promises); results.push(...)
TpAll ==
  /\ tpPc = "all"
  /\ \A c \in Callers \ {0} : tpCaller[c] \in {"done", "caught"}
  /\ tpResults' = Rows(PromiseAll(tpValue, tpOrder))
  /\ tpPc' = "close"
  /\ UNCHANGED <<tpNumUrls, tpSize, tpTabs, tpInitialized, tpCaller, tpHeld,
                 tpAcquired, tpReleased, tpValue, tpOrder>>

\* ensureLogin threw: processUrls goes to its finally
TpLoginThrown ==
  /\ tpPc = "login" /\ tpCaller[0] = "thrown"
  /\ tpPc' = "closeThrown"
  /\ UNCHANGED <<tpNumUrls, tpSize, tpTabs, tpInitialized, tpCaller, tpHeld,
                 tpAcquired, tpReleased,
                 tpValue, tpOrder, tpResults>>

\* finally { await tabPool.close(); await browser.close(); }
TpClose ==
  /\ tpPc \in {"close", "closeThrown"}
  /\ tpPc' = IF tpPc = "close" THEN "returned" ELSE "thrown"
  /\ UNCHANGED <<tpNumUrls, tpSize, tpTabs, tpInitialized, tpCaller, tpHeld,
                 tpAcquired, tpReleased,
                 tpValue, tpOrder, tpResults>>

InitTab == TpInit /\ OffButTp

NextTab ==
  \/ TpStart /\ TpFrame
  \/ TpNewContext /\ TpFrame
  \/ TpNewPage /\ TpFrame
  \/ (\E c \in Callers : TpGetTab(c)) /\ TpFrame
  \/ TpLoginGoto /\ TpFrame
  \/ TpHandleLogin /\ TpFrame
  \/ TpMap /\ TpFrame
  \/ (\E c \in Callers : TpPageStep(c)) /\ TpFrame
  \/ TpAll /\ TpFrame
  \/ TpLoginThrown /\ TpFrame
  \/ TpClose /\ TpFrame

SpecTab == InitTab /\ [][NextTab]_vars

\* Every timer fires and every page operation and the operator's answer come
\* in the end: each caller that can take a step eventually takes one.
TabFair ==
  /\ WF_vars(NextTab)
  /\ \A c \in 0..MaxTpUrls :
       /\ WF_vars(c \in Callers /\ TpGetTab(c) /\ TpFrame)
       /\ WF_vars(c \in Callers /\ TpPageStep(c) /\ TpFrame)

SpecTabLive == InitTab /\ [][NextTab]_vars /\ TabFair

\* ---- captureScreenshot (compare_optimized.ts, variants 1 and 2) ----
\* The awaits of captureScreenshot outside its try block, in program order.
AfterOverlay == <<"addStyleTag", "scrollTo", "waitForTimeout3000", "screenshot">>
OverlaySteps == {"isVisible", "click", "waitForTimeout500"}
AfterOverlaySteps == {AfterOverlay[i] : i \in 1..Len(AfterOverlay)}

CapInit ==
  /\ capVariant \in 1..2
  /\ capPc = "idle"
  /\ cookieAccepted = FALSE          \* let cookieAccepted = false
  /\ capCalls = 0
  /\ capOverlay = "none" /\ capFailedAt = "none" /\ capAfter = <<>>

\* A task calls captureScreenshot(tab, url, path); the calls of one tab follow
\* each other (dev then prod, and again on a retry).
CapCall ==
  /\ capPc \in {"idle", "returned", "thrown"}
  /\ capCalls < MaxCaptures
  /\ capCalls' = capCalls + 1
  /\ capPc' = "goto"
  /\ capOverlay' = "none" /\ capFailedAt' = "none" /\ capAfter' = <<>>
  /\ UNCHANGED <<capVariant, cookieAccepted>>

\* await page.goto(...); await page.waitForLoadState(...); then
\* if (!cookieAccepted) { try { page.locator(...).first(); await isVisible()
CapLoad(ok) ==
  /\ capPc \in {"goto", "waitForLoadState"}
  /\ IF ~ok
     THEN capPc' = "thrown" /\ capFailedAt' = capPc /\ UNCHANGED capOverlay
     ELSE /\ UNCHANGED capFailedAt
          /\ IF capPc = "goto"
             THEN capPc' = "waitForLoadState" /\ UNCHANGED capOverlay
             ELSE IF cookieAccepted
                  THEN capPc' = "addStyleTag" /\ capOverlay' = "skipped"
                  ELSE capPc' = "isVisible" /\ UNCHANGED capOverlay
  /\ UNCHANGED <<capVariant, cookieAccepted, capCalls, capAfter>>

\* catch {} of the overlay block: the rejection is dropped and the function
\* goes on with the statement after the if.
OverlayRethrown(step) == "thrown"
OverlayCaught(step) == "addStyleTag"

\* await cookieButton.isVisible(): false when no element matches or the
\* button is hidden, true when it shows, or a rejection.
CapIsVisible(answer) ==
  /\ capPc = "isVisible"
  /\ CASE answer = "visible" -> capPc' = "click" /\ UNCHANGED capOverlay
       [] answer \in {"absent", "hidden"} ->
            capPc' = "addStyleTag" /\ capOverlay' = answer
       [] OTHER -> capPc' = OverlayCaught(capPc) /\ capOverlay' = "isVisibleThrew"
  /\ UNCHANGED <<capVariant, cookieAccepted, capCalls, capFailedAt, capAfter>>

\* await cookieButton.click()
CapClick(ok) ==
  /\ capPc = "click"
  /\ IF ok
     THEN capPc' = "waitForTimeout500" /\ UNCHANGED capOverlay
     ELSE capPc' = OverlayCaught(capPc) /\ capOverlay' = "clickThrew"
  /\ UNCHANGED <<capVariant, cookieAccepted, capCalls, capFailedAt, capAfter>>

\* await page.waitForTimeout(500); variant 2 then sets cookieAccepted = true
CapWaitAfterClick(ok) ==
  /\ capPc = "waitForTimeout500"
  /\ IF ok
     THEN /\ capPc' = "addStyleTag" /\ capOverlay' = "dismissed"
          /\ cookieAccepted' = (cookieAccepted \/ capVariant = 2)
     ELSE /\ capPc' = OverlayCaught(capPc) /\ capOverlay' = "waitThrew"
          /\ UNCHANGED cookieAccepted
  /\ UNCHANGED <<capVariant, capCalls, capFailedAt, capAfter>>

\* addStyleTag, evaluate(scrollTo), waitForTimeout(3000), screenshot: each is
\* awaited outside any try, the last one's fulfilment ends the call.
CapSettle(ok) ==
  /\ \E i \in 1..Len(AfterOverlay) :
       /\ capPc = AfterOverlay[i]
       /\ IF ~ok
          THEN capPc' = "thrown" /\ capFailedAt' = capPc /\ UNCHANGED capAfter
          ELSE /\ capAfter' = Append(capAfter, capPc)
               /\ capPc' = IF i < Len(AfterOverlay) THEN AfterOverlay[i + 1]
                                                    ELSE "returned"
               /\ UNCHANGED capFailedAt
  /\ UNCHANGED <<capVariant, cookieAccepted, capCalls, capOverlay>>

InitCap == CapInit /\ OffButCap

NextCap ==
  \/ CapCall /\ CapFrame
  \/ (\E ok \in BOOLEAN : CapLoad(ok)) /\ CapFrame
  \/ (\E a \in {"visible", "absent", "hidden", "throws"} : CapIsVisible(a)) /\ CapFrame
  \/ (\E ok \in BOOLEAN : CapClick(ok)) /\ CapFrame
  \/ (\E ok \in BOOLEAN : CapWaitAfterClick(ok)) /\ CapFrame
  \/ (\E ok \in BOOLEAN : CapSettle(ok)) /\ CapFrame

SpecCap == InitCap /\ [][NextCap]_vars

\* ---- padImage ----
\* An image object: ref is the identity of the object (=== compares it), data
\* the RGBA bytes, data[k] the byte at index k of the Buffer.
Image(ref, w, h, data) == [ref |-> ref, width |-> w, height |-> h, data |-> data]
Thrown == [thrown |-> TRUE]

\* Buffer.alloc(n, byte), and Buffer.alloc(n) followed by fill(byte)
Filled(n, byte) == [k \in 0..(n - 1) |-> byte]

\* The decoded screenshots padImage is given: every byte different ("coded"),
\* an all-white and an all-transparent picture.
Patterns == {"coded", "white", "clear"}
PatternByte(pattern, k) ==
  CASE pattern = "coded" -> (k + 1) % 256
    [] pattern = "white" -> 255
    [] OTHER -> 0
Decoded(ref, w, h, pattern) ==
  Image(ref, w, h, [k \in 0..(w * h * 4 - 1) |-> PatternByte(pattern, k)])
Dims == 1..MaxDim

PadImpls == {"compare-screenshots", "variant1", "variant2", "variant3", "compare"}

\* if (img.width === targetWidth && img.height === targetHeight) return img;
\* compare.ts has no such line.
ReturnsInput(impl, img, W, H) ==
  impl # "compare" /\ img.width = W /\ img.height = H

\* The byte a fresh buffer is filled with before the copy: 255 everywhere
\* but in compare.ts, where new PNG({ ..., fill: true }) zeroes the data.
FillByte(impl) == IF impl = "compare" THEN 0 ELSE 255

\* Where the copy puts pixel (0, 0) of img: Math.floor((target - size) / 2) in
\* compare-screenshots.ts and compare.ts, 0 in the variants.
Centered(impl) == impl \in {"compare-screenshots", "compare"}
OffsetX(impl, img, W) == IF Centered(impl) THEN (W - img.width) \div 2 ELSE 0
OffsetY(impl, img, H) == IF Centered(impl) THEN (H - img.height) \div 2 ELSE 0

\* The assignments of the copy loops, as <<destination index, source index>>:
\* for y, for x: dst = ((y + offsetY) * targetWidth + (x + offsetX)) * 4,
\* src = (y * img.width + x) * 4, four bytes each. Variant 1 only copies a
\* pixel when x < targetWidth && y < targetHeight.
CopyWrites(impl, img, W, H) ==
  {<<((y + OffsetY(impl, img, H)) * W + (x + OffsetX(impl, img, W))) * 4 + c,
     (y * img.width + x) * 4 + c>> :
     y \in {v \in 0..(img.height - 1) : impl = "variant1" => v < H},
     x \in {u \in 0..(img.width - 1) : impl = "variant1" => u < W},
     c \in 0..3}

\* PNG.bitblt(img, padded, 0, 0, img.width, img.height, 0, 0) throws when the
\* rectangle does not fit into the destination.
BitbltThrows(impl, img, W, H) ==
  impl = "variant2" /\ (img.width > W \/ img.height > H)

\* The buffer after the loops: an assignment to an index outside the buffer
\* does nothing, of several assignments to one index the last one stays (the
\* source index grows along the loops), and a read past the end of the source
\* buffer gives undefined, which is stored as 0.
ByteAt(data, i) == IF i \in DOMAIN data THEN data[i] ELSE 0
CopiedData(impl, img, W, H) ==
  LET writes == CopyWrites(impl, img, W, H)
      SrcOf(k) == {wr[2] : wr \in {v \in writes : v[1] = k}}
      LastSrc(k) == CHOOSE s \in SrcOf(k) : \A r \in SrcOf(k) : r <= s
  IN  [k \in 0..(W * H * 4 - 1) |->
         IF SrcOf(k) # {} THEN ByteAt(img.data, LastSrc(k))
                          ELSE FillByte(impl)]

\* padImage(img, targetWidth, targetHeight); ref is the identity of the
\* object the call creates if it creates one.
PadImage(impl, img, W, H, ref) ==
  IF ReturnsInput(impl, img, W, H) THEN img
  ELSE IF BitbltThrows(impl, img, W, H) THEN Thrown
  ELSE Image(ref, W, H, CopiedData(impl, img, W, H))

PadInit ==
  /\ padImpl \in PadImpls
  /\ padPc = "start"
  /\ \E w \in Dims, h \in Dims, p \in Patterns : padImg = Decoded(1, w, h, p)
  /\ padWidth \in Dims /\ padHeight \in Dims
  /\ padded = Null /\ paddedAgain = Null

\* padded = padImage(img, targetWidth, targetHeight)
Pad ==
  /\ padPc = "start"
  /\ padded' = PadImage(padImpl, padImg, padWidth, padHeight, 2)
  /\ padPc' = "padded"
  /\ UNCHANGED <<padImpl, padImg, padWidth, padHeight, paddedAgain>>

\* padImage(padded, targetWidth, targetHeight), if the first call returned
PadAgain ==
  /\ padPc = "padded" /\ padded # Thrown
  /\ paddedAgain' = PadImage(padImpl, padded, padWidth, padHeight, 3)
  /\ padPc' = "again"
  /\ UNCHANGED <<padImpl, padImg, padWidth, padHeight, padded>>

InitPad == PadInit /\ OffButPad

NextPad ==
  \/ Pad /\ PadFrame
  \/ PadAgain /\ PadFrame

SpecPad == InitPad /\ [][NextPad]_vars

\* ---- compareScreenshots with padding ----
\* compare-screenshots.ts and variants 1, 2 and 3 of compare_optimized.ts; each
\* calls the padImage of its own script.
PairImpls == {"compare-screenshots", "variant1", "variant2", "variant3"}

\* compareScreenshots of compare.ts, which calls no padImage
PairImplsAll == PairImpls \cup {"compare"}

PairInitOf(impls) ==
  /\ prImpl \in impls
  /\ prPc = "read"
  /\ img1 = Null /\ img2 = Null /\ maxWidth = 0 /\ maxHeight = 0
  /\ padded1 = Null /\ padded2 = Null /\ prDiffPixels = Null

PairInit == PairInitOf(PairImpls)

\* What compareScreenshots does with an exception: compare-screenshots.ts
\* catches it and resolves { isDifferent: true, diffPixels: Infinity },
\* compare.ts catches it and returns { isDifferent: true, diffPixels: 0 }, the
\* variants let it go to the caller.
PairThrow ==
  /\ prPc' = IF prImpl \in {"compare-screenshots", "compare"} THEN "caught"
                                                              ELSE "thrown"
  /\ prDiffPixels' = CASE prImpl = "compare-screenshots" -> Infinity
                       [] prImpl = "compare" -> 0
                       [] OTHER -> Null

\* img1 = readImage(devPath); img2 = readImage(prodPath), or one of them throws
PairRead ==
  /\ prPc = "read"
  /\ \/ /\ \E w \in Dims, h \in Dims, p \in Patterns : img1' = Decoded(1, w, h, p)
        /\ \E w \in Dims, h \in Dims, p \in Patterns : img2' = Decoded(2, w, h, p)
        /\ prPc' = "max"
        /\ UNCHANGED prDiffPixels
     \/ PairThrow /\ UNCHANGED <<img1, img2>>
  /\ UNCHANGED <<prImpl, maxWidth, maxHeight, padded1, padded2>>

\* Math.max(a, b)
FirstOf(a, b) == a
MathMax(a, b) == IF a >= b THEN a ELSE b

\* const maxWidth = Math.max(img1.width, img2.width); maxHeight likewise
PairMax ==
  /\ prPc = "max"
  /\ maxWidth' = MathMax(img1.width, img2.width)
  /\ maxHeight' = MathMax(img1.height, img2.height)
  /\ prPc' = "pad1"
  /\ UNCHANGED <<prImpl, img1, img2, padded1, padded2, prDiffPixels>>

\* What pixelmatch is given for img: padImage(img, maxWidth, maxHeight), but
\* img as it was read in compare.ts (pixelmatch(img1.data, img2.data, ...)).
Normalized(impl, img, W, H, ref) ==
  IF impl = "compare" THEN img ELSE PadImage(impl, img, W, H, ref)

\* const padded1 = padImage(img1, maxWidth, maxHeight)
PairPad1 ==
  /\ prPc = "pad1"
  /\ padded1' = Normalized(prImpl, img1, maxWidth, maxHeight, 3)
  /\ IF padded1' = Thrown
     THEN PairThrow
     ELSE prPc' = "pad2" /\ UNCHANGED prDiffPixels
  /\ UNCHANGED <<prImpl, img1, img2, maxWidth, maxHeight, padded2>>

\* const padded2 = padImage(img2, maxWidth, maxHeight)
PairPad2 ==
  /\ prPc = "pad2"
  /\ padded2' = Normalized(prImpl, img2, maxWidth, maxHeight, 4)
  /\ IF padded2' = Thrown
     THEN PairThrow
     ELSE prPc' = "pixelmatch" /\ UNCHANGED prDiffPixels
  /\ UNCHANGED <<prImpl, img1, img2, maxWidth, maxHeight, padded1>>

\* Number of bytes of a buffer, and the pixels in which two buffers of one
\* size are not identical.
ByteLength(data) == Cardinality(DOMAIN data)
AllPixels(d1, d2) == 0..((ByteLength(d1) \div 4) - 1)
UnequalPixels(d1, d2) ==
  {p \in 0..((ByteLength(d1) \div 4) - 1) :
     \E c \in 0..3 : d1[p * 4 + c] # d2[p * 4 + c]}

\* pixelmatch(padded1.data, padded2.data, diff.data, maxWidth, maxHeight,
\* { threshold: 0.1 }) throws when the buffers differ in size or do not have
\* width * height * 4 bytes; otherwise it counts pixels that are not
\* identical and whose colour distance exceeds the threshold.
PairMatch ==
  /\ prPc = "pixelmatch"
  /\ IF \/ ByteLength(padded1.data) # ByteLength(padded2.data)
        \/ ByteLength(padded1.data) # maxWidth * maxHeight * 4
     THEN PairThrow
     ELSE /\ prDiffPixels' \in
               0..Cardinality(UnequalPixels(padded1.data, padded2.data))
          /\ prPc' = "resolved"
  /\ UNCHANGED <<prImpl, img1, img2, maxWidth, maxHeight, padded1, padded2>>

\* const isDifferent = diffPixels > 0 (compare-screenshots.ts); the variants
\* report match: numDiffPixels === 0, which is MakeResult.
IsDifferent(diffPixels) == diffPixels > 0

\* A picture of W x H pixels that shows img in its top-left corner and is
\* opaque white everywhere else, as a screenshot file may hold it.
Framed(ref, img, W, H) ==
  Image(ref, W, H,
        [k \in 0..(W * H * 4 - 1) |->
           LET x == (k \div 4) % W
               y == (k \div 4) \div W
           IN  IF x < img.width /\ y < img.height
               THEN img.data[(y * img.width + x) * 4 + (k % 4)]
               ELSE 255])

\* readImage of two files of which one holds a picture and the other the same
\* picture in the top-left corner of a white canvas at least as large.
PairReadFramed ==
  /\ prPc = "read"
  /\ \E w \in Dims, h \in Dims, p \in Patterns, W \in Dims, H \in Dims :
       /\ W >= w /\ H >= h
       /\ \/ /\ img1' = Decoded(1, w, h, p)
             /\ img2' = Framed(2, Decoded(1, w, h, p), W, H)
          \/ /\ img1' = Framed(1, Decoded(2, w, h, p), W, H)
             /\ img2' = Decoded(2, w, h, p)
  /\ prPc' = "max"
  /\ UNCHANGED <<prImpl, maxWidth, maxHeight, padded1, padded2, prDiffPixels>>

InitPair == PairInit /\ OffButPair

NextPair ==
  \/ PairRead /\ PairFrame
  \/ PairMax /\ PairFrame
  \/ PairPad1 /\ PairFrame
  \/ PairPad2 /\ PairFrame
  \/ PairMatch /\ PairFrame

SpecPair == InitPair /\ [][NextPair]_vars

NextFramed ==
  \/ PairReadFramed /\ PairFrame
  \/ PairMax /\ PairFrame
  \/ PairPad1 /\ PairFrame
  \/ PairPad2 /\ PairFrame
  \/ PairMatch /\ PairFrame

SpecFramed == InitPair /\ [][NextFramed]_vars

InitPairAll == PairInitOf(PairImplsAll) /\ OffButPair

SpecPairAll == InitPairAll /\ [][NextPair]_vars

\* ---- readImage ----
ReadImpls == {"compare-screenshots", "variant3"}
Extensions == {".png", ".jpg", ".jpeg", ".gif"}

\* What the decoder of the file gives: width, height and data with channels
\* bytes per pixel. PNG.sync.read gives RGBA; for jpeg.decode the code of
\* variant 3 tells data of 4 bytes per pixel from data of 3.
DecoderOutputs(ext) ==
  {[width |-> w, height |-> h, channels |-> n,
    data |-> [k \in 0..(w * h * n - 1) |-> PatternByte(p, k)]] :
     w \in Dims, h \in Dims, p \in Patterns,
     n \in IF ext = ".png" THEN {4} ELSE {3, 4}}

\* Add alpha channel if missing (variant 3): rgba[i*4+c] = jpg.data[i*3+c],
\* rgba[i*4+3] = 255
ExpandToRGBA(d) ==
  [k \in 0..(d.width * d.height * 4 - 1) |->
     IF k % 4 = 3 THEN 255 ELSE d.data[(k \div 4) * 3 + (k % 4)]]

\* readImage(filePath): the decoded image by extension, or an exception for
\* an extension that is neither .png, .jpg nor .jpeg.
ReadImage(impl, file) ==
  LET d == file.decoded
  IN  CASE file.ext = ".png" -> Image(1, d.width, d.height, d.data)
        [] file.ext \in {".jpg", ".jpeg"} ->
             IF impl = "variant3" /\ ByteLength(d.data) # d.width * d.height * 4
             THEN Image(1, d.width, d.height, ExpandToRGBA(d))
             ELSE Image(1, d.width, d.height, d.data)
        [] OTHER -> Thrown

ReadInit ==
  /\ rdImpl \in ReadImpls
  /\ rdPc = "start"
  /\ \E ext \in Extensions : \E d \in DecoderOutputs(ext) :
       rdFile = [ext |-> ext, decoded |-> d]
  /\ rdImage = Null /\ rdPadded = Null

\* img = readImage(path)
Read ==
  /\ rdPc = "start"
  /\ rdImage' = ReadImage(rdImpl, rdFile)
  /\ rdPc' = IF rdImage' = Thrown THEN "threw" ELSE "read"
  /\ UNCHANGED <<rdImpl, rdFile, rdPadded>>

\* img = padImage(img, width, height) with the maximum of its size and that
\* of the other image
ReadPad ==
  /\ rdPc = "read"
  /\ \E W \in Dims, H \in Dims :
       /\ W >= rdImage.width /\ H >= rdImage.height
       /\ rdPadded' = PadImage(rdImpl, rdImage, W, H, 2)
  /\ rdPc' = "padded"
  /\ UNCHANGED <<rdImpl, rdFile, rdImage>>

InitRead == ReadInit /\ OffButRead

NextRead ==
  \/ Read /\ ReadFrame
  \/ ReadPad /\ ReadFrame

SpecRead == InitRead /\ [][NextRead]_vars

\* ---- concurrent captures and the cookieAccepted flag ----
\* Capture c is one call of captureScreenshot by one of the tasks in flight;
\* the calls of different tasks interleave at their awaits.
Captures == 1..MaxCapTasks

OvInit ==
  /\ ovVariant \in 1..2
  /\ ovPc = [c \in Captures |-> "idle"]
  /\ ovCookieAccepted = FALSE
  /\ ovSaw = [c \in Captures |-> "unread"]
  /\ ovClicks = <<>>

\* captureScreenshot is called: await page.goto(...)
OvCall(c) ==
  /\ ovPc[c] = "idle"
  /\ ovPc' = [ovPc EXCEPT ![c] = "loading"]
  /\ UNCHANGED <<ovVariant, ovCookieAccepted, ovSaw, ovClicks>>

\* goto and waitForLoadState are fulfilled; if (!cookieAccepted) reads the
\* flag and the capture goes on to await cookieButton.isVisible(), or skips
\* the block.
OvCheck(c) ==
  /\ ovPc[c] = "loading"
  /\ ovSaw' = [ovSaw EXCEPT ![c] = IF ovCookieAccepted THEN "set" ELSE "clear"]
  /\ ovPc' = [ovPc EXCEPT ![c] = IF ovCookieAccepted THEN "rest" ELSE "isVisible"]
  /\ UNCHANGED <<ovVariant, ovCookieAccepted, ovClicks>>

\* isVisible() answers: the banner shows on this page or it does not (or the
\* call throws, which the catch drops).
OvIsVisible(c, visible) ==
  /\ ovPc[c] = "isVisible"
  /\ ovPc' = [ovPc EXCEPT ![c] = IF visible THEN "click" ELSE "rest"]
  /\ UNCHANGED <<ovVariant, ovCookieAccepted, ovSaw, ovClicks>>

\* await cookieButton.click() is fulfilled (the button is clicked) or throws
OvClick(c, ok) ==
  /\ ovPc[c] = "click"
  /\ ovPc' = [ovPc EXCEPT ![c] = IF ok THEN "waitForTimeout500" ELSE "rest"]
  /\ ovClicks' = IF ok THEN Append(ovClicks, c) ELSE ovClicks
  /\ UNCHANGED <<ovVariant, ovCookieAccepted, ovSaw>>

\* What the 500 ms wait is followed by: cookieAccepted = true in variant 2,
\* nothing in variant 1.
FlagAfterClick(variant, flag) == flag \/ variant = 2

\* await page.waitForTimeout(500) is fulfilled
OvWaited(c) ==
  /\ ovPc[c] = "waitForTimeout500"
  /\ ovCookieAccepted' = FlagAfterClick(ovVariant, ovCookieAccepted)
  /\ ovPc' = [ovPc EXCEPT ![c] = "rest"]
  /\ UNCHANGED <<ovVariant, ovSaw, ovClicks>>

\* addStyleTag, the scroll, the settle delay and the screenshot
OvRest(c) ==
  /\ ovPc[c] = "rest"
  /\ ovPc' = [ovPc EXCEPT ![c] = "done"]
  /\ UNCHANGED <<ovVariant, ovCookieAccepted, ovSaw, ovClicks>>

InitOv == OvInit /\ OffButOv

NextOv ==
  \/ (\E c \in Captures : OvCall(c)) /\ OvFrame
  \/ (\E c \in Captures : OvCheck(c)) /\ OvFrame
  \/ (\E c \in Captures, v \in BOOLEAN : OvIsVisible(c, v)) /\ OvFrame
  \/ (\E c \in Captures, ok \in BOOLEAN : OvClick(c, ok)) /\ OvFrame
  \/ (\E c \in Captures : OvWaited(c)) /\ OvFrame
  \/ (\E c \in Captures : OvRest(c)) /\ OvFrame

SpecOv == InitOv /\ [][NextOv]_vars

\* ---- artifact paths of concurrent tasks ----
\* A urlPath is a sequence of characters.  \W matches every character but
\* letters, digits and the underscore.
PathChars == {"/", "-", "a", "_"}
WordChars == {"h", "t", "p", "a", "_"}

\* readUrlsFromExcel keeps the lines that start with 'http'
Http == <<"h", "t", "t", "p">>

RECURSIVE ReplaceRuns(_, _)
\* urlPath.replace(/\W+/g, '_') from the character after a run (inRun) or not:
\* every maximal run of non-word characters becomes one underscore.
ReplaceRuns(s, inRun) ==
  IF s = <<>> THEN <<>>
  ELSE IF Head(s) \in WordChars
         THEN <<Head(s)>> \o ReplaceRuns(Tail(s), FALSE)
         ELSE (IF inRun THEN <<>> ELSE <<"_">>) \o ReplaceRuns(Tail(s), TRUE)

CleanName(urlPath) == ReplaceRuns(urlPath, FALSE)

\* paths = { dev: .../dev/<cleanName>.jpg, prod: .../prod/<cleanName>.jpg,
\*           diff: .../diff/<cleanName>_diff.jpg }
ArtifactPaths(urlPath) ==
  [dev  |-> <<"dev", CleanName(urlPath), ".jpg">>,
   prod |-> <<"prod", CleanName(urlPath), ".jpg">>,
   diff |-> <<"diff", CleanName(urlPath) \o <<"_", "d", "i", "f", "f">>, ".jpg">>]

RECURSIVE UrlPathsOf(_)
\* the lines that start with 'http' and have up to n more characters
UrlPathsOf(n) ==
  IF n = 0 THEN {Http}
  ELSE UrlPathsOf(n - 1) \cup
       {Append(p, c) : p \in {q \in UrlPathsOf(n - 1) : Len(q) = Len(Http) + n - 1},
                       c \in PathChars}

UrlPaths == UrlPathsOf(MaxPathLen)
SlTasks == 1..2

\* fs write of one file: the last writer owns the content
WriteFile(files, path, t) ==
  [p \in DOMAIN files \cup {path} |-> IF p = path THEN t ELSE files[p]]

\* The url list holds distinct targets.
SlInit ==
  /\ slUrls \in [SlTasks -> UrlPaths]
  /\ slUrls[1] # slUrls[2]
  /\ slPc = [t \in SlTasks |-> "queued"]
  /\ slFiles = <<>>
  /\ slRead = [t \in SlTasks |-> Null]

\* runWithConcurrencyLimit starts the task: cleanName and paths are computed,
\* a page is opened and captureScreenshot(dev) is awaited.
SlStart(t) ==
  /\ slPc[t] = "queued"
  /\ slPc' = [slPc EXCEPT ![t] = "captureDev"]
  /\ UNCHANGED <<slUrls, slFiles, slRead>>

\* page.screenshot({ path: paths.dev }) writes the dev/stage file
SlCaptureDev(t) ==
  /\ slPc[t] = "captureDev"
  /\ slFiles' = WriteFile(slFiles, ArtifactPaths(slUrls[t]).dev, t)
  /\ slPc' = [slPc EXCEPT ![t] = "captureProd"]
  /\ UNCHANGED <<slUrls, slRead>>

\* page.screenshot({ path: paths.prod }) writes the prod file
SlCaptureProd(t) ==
  /\ slPc[t] = "captureProd"
  /\ slFiles' = WriteFile(slFiles, ArtifactPaths(slUrls[t]).prod, t)
  /\ slPc' = [slPc EXCEPT ![t] = "compare"]
  /\ UNCHANGED <<slUrls, slRead>>

\* compareScreenshots reads paths.dev and paths.prod and writes paths.diff
SlCompare(t) ==
  /\ slPc[t] = "compare"
  /\ slRead' = [slRead EXCEPT ![t] =
                  [dev  |-> slFiles[ArtifactPaths(slUrls[t]).dev],
                   prod |-> slFiles[ArtifactPaths(slUrls[t]).prod]]]
  /\ slFiles' = WriteFile(slFiles, ArtifactPaths(slUrls[t]).diff, t)
  /\ slPc' = [slPc EXCEPT ![t] = "done"]
  /\ UNCHANGED slUrls

InitSl == SlInit /\ OffButSl

NextSl ==
  \/ (\E t \in SlTasks : SlStart(t)) /\ SlFrame
  \/ (\E t \in SlTasks : SlCaptureDev(t)) /\ SlFrame
  \/ (\E t \in SlTasks : SlCaptureProd(t)) /\ SlFrame
  \/ (\E t \in SlTasks : SlCompare(t)) /\ SlFrame

SpecSl == InitSl /\ [][NextSl]_vars

\* ---- TabPool: getTab calls at arbitrary times ----
\* Each call is one getTab() of some client of the pool; a call may be issued
\* at any time, also while the initialize() of another is at an await.
GetTabCalls == 1..MaxGetTabCalls

TiInit ==
  /\ tiSize \in 1..MaxTabs
  /\ tiPc = [c \in GetTabCalls |-> "idle"]
  /\ tiI = [c \in GetTabCalls |-> 0]
  /\ tiTabs = <<>>
  /\ tiInitialized = FALSE
  /\ tiContexts = 0
  /\ tiHeld = [c \in GetTabCalls |-> 0]

\* getTab(): await this.initialize().  initialize runs synchronously up to
\* its first await: if (this.isInitialized) return; otherwise
\* await this.browser.newContext().
TiGetTab(c) ==
  /\ tiPc[c] = "idle"
  /\ tiPc' = [tiPc EXCEPT ![c] = IF tiInitialized THEN "find" ELSE "newContext"]
  /\ UNCHANGED <<tiSize, tiI, tiTabs, tiInitialized, tiContexts, tiHeld>>

\* this.context = await this.browser.newContext(); then i = 0 and the first
\* await this.context.newPage() (size is at least 1)
TiNewContext(c) ==
  /\ tiPc[c] = "newContext"
  /\ tiContexts' = tiContexts + 1
  /\ tiI' = [tiI EXCEPT ![c] = 0]
  /\ tiPc' = [tiPc EXCEPT ![c] = "newPage"]
  /\ UNCHANGED <<tiSize, tiTabs, tiInitialized, tiHeld>>

\* const page = await this.context.newPage();
\* this.tabs.push({ page, busy: false }); i++; after the last round
\* this.isInitialized = true and initialize returns.
TiNewPage(c) ==
  /\ tiPc[c] = "newPage"
  /\ tiTabs' = Append(tiTabs, FALSE)
  /\ tiI' = [tiI EXCEPT ![c] = @ + 1]
  /\ IF tiI[c] + 1 < tiSize
     THEN UNCHANGED <<tiInitialized, tiPc>>
     ELSE /\ tiInitialized' = TRUE
          /\ tiPc' = [tiPc EXCEPT ![c] = "find"]
  /\ UNCHANGED <<tiSize, tiContexts, tiHeld>>

\* the while (true) of getTab after an await: a free tab is marked busy and
\* returned, or the call sleeps 100 ms and looks again.
TiFind(c) ==
  /\ tiPc[c] = "find"
  /\ FindFreeTab(tiTabs) # 0
  /\ tiTabs' = [tiTabs EXCEPT ![FindFreeTab(tiTabs)] = TRUE]
  /\ tiHeld' = [tiHeld EXCEPT ![c] = FindFreeTab(tiTabs)]
  /\ tiPc' = [tiPc EXCEPT ![c] = "holding"]
  /\ UNCHANGED <<tiSize, tiI, tiInitialized, tiContexts>>

\* the client hands the tab back: releaseTab(tab)
TiRelease(c) ==
  /\ tiPc[c] = "holding"
  /\ tiTabs' = ReleaseTab(tiTabs, tiHeld[c])
  /\ tiHeld' = [tiHeld EXCEPT ![c] = 0]
  /\ tiPc' = [tiPc EXCEPT ![c] = "released"]
  /\ UNCHANGED <<tiSize, tiI, tiInitialized, tiContexts>>

InitTi == TiInit /\ OffButTi

NextTi ==
  \/ (\E c \in GetTabCalls : TiGetTab(c)) /\ TiFrame
  \/ (\E c \in GetTabCalls : TiNewContext(c)) /\ TiFrame
  \/ (\E c \in GetTabCalls : TiNewPage(c)) /\ TiFrame
  \/ (\E c \in GetTabCalls : TiFind(c)) /\ TiFrame
  \/ (\E c \in GetTabCalls : TiRelease(c)) /\ TiFrame

SpecTi == InitTi /\ [][NextTi]_vars

(***************************************************************************)
(* Properties                                                              *)
(***************************************************************************)

\* The splice guard of variant 2 never decides anything: whenever a .then
\* callback is about to run, its promise is in executing, so both variants of
\* runWithConcurrencyLimit remove the same element.
VariantsAgree ==
  \A t \in Targets :
    taskPc[t] = "settled" =>
      /\ IndexOf(executing, t) >= 0
      /\ RemoveExecuting(executing, t) = RemoveExecutingGuarded(executing, t)

AllAttemptsFailed(t) ==
  /\ Len(attemptLog[t]) = 3
  /\ \A k \in 1..3 : ~attemptLog[t][k].ok

ResultsFor(t) == {j \in 1..Len(results) : results[j].url = t}

\* C1: when the concurrent run has finished, the result list has exactly one
\* entry per input target: as many results as targets, none missing, none
\* twice.
C1_OneResultPerTarget ==
  mainPc = "done" =>
    /\ Len(results) = numUrls
    /\ \A t \in Targets : Cardinality(ResultsFor(t)) = 1

\* C2: a target whose three attempts all failed still has a result in the
\* final list, with matched = false and an error on it.
C2_ExhaustedTargetHasResult ==
  mainPc = "done" =>
    \A t \in Targets :
      AllAttemptsFailed(t) =>
        \E j \in ResultsFor(t) :
          /\ ~results[j].match
          /\ "error" \in DOMAIN results[j]

\* C3: a step of one target throwing never ends the run with a top-level
\* error and never keeps the other targets from getting their results
\* (sequential variant of compare_optimized.ts).
C3_FailureIsLocal ==
  (seqFailed # 0 /\ seqPc \in {"exit1", "done"}) =>
    /\ seqPc = "done"
    /\ \A i \in (1..seqNumPairs) \ {seqFailed} :
         \E j \in 1..Len(seqResults) : seqResults[j].name = i

\* C4: at every moment the number of tasks started and not yet settled is at
\* most the limit, in runWithConcurrencyLimit of compare_optimized.ts and of
\* compare.ts.
C4_InFlightAtMostLimit ==
  /\ Cardinality(InFlight) <= limit
  /\ Cardinality(PoolInFlight) <= poolLimit

\* the pool is full, one more target is queued, and the loop waits
C4_Witness ==
  /\ limit = 2 /\ Cardinality(InFlight) = 2
  /\ runPc = "race" /\ nextIdx <= numUrls
  /\ \E t \in Targets : attempt[t] = 3

NoBarrierLive ==
  \A k \in 1..MaxTargets :
    (nextIdx = k /\ k <= numUrls /\ runPc \in {"loop", "race"}
       /\ Cardinality(InFlight) < limit) ~> (nextIdx > k)

RunTerminates == (mainPc = "start") ~> (mainPc \in {"done", "noUrls"})

\* C12: every run over a non-empty target list eventually completes with a
\* summary that covers all its targets, whatever the pattern of per-target
\* failures.
C12_RunCompletesWithFullSummary ==
  (mainPc = "start" /\ numUrls > 0) ~>
    (mainPc = "done" /\ summary # Null /\ summary.totalUrls = numUrls)

Attempting(t) ==
  taskPc[t] \in {"captureDev", "captureProd", "compare", "closeOk", "catchClose"}

\* C5: a target gets at most 3 attempts, none after a successful one, and
\* every attempt runs on a page that is open, was never closed before and is
\* held by no other task.
C5_AttemptsBoundedOnFreshPages ==
  \A t \in Targets :
    /\ attempt[t] <= 3
    /\ Len(attemptLog[t]) <= 3
    /\ \A k \in 1..Len(attemptLog[t]) :
         attemptLog[t][k].ok => (k = Len(attemptLog[t]) /\ Terminal(t))
    /\ Attempting(t) =>
         /\ tab[t] \in openPages
         /\ tab[t] \notin closedPages
         /\ \A u \in Targets \ {t} : tab[u] # tab[t]

\* a third attempt runs on its page while another task holds a page of its own
C5_Witness ==
  \E t, u \in Targets :
    /\ t # u
    /\ attempt[t] = 3 /\ taskPc[t] = "captureProd"
    /\ Attempting(u)
    /\ Cardinality(closedPages) >= 3

FailedTwiceThenOk(t) ==
  /\ Len(attemptLog[t]) = 3
  /\ ~attemptLog[t][1].ok /\ ~attemptLog[t][2].ok /\ attemptLog[t][3].ok

\* C6: a target whose first two attempts failed and whose third succeeded
\* resolves with the third attempt's outcome (match iff its diff count is 0)
\* and nothing else on the result, and that result is in the final list.
C6_ThirdAttemptOutcomeRecorded ==
  \A t \in Targets :
    FailedTwiceThenOk(t) =>
      /\ taskValue[t] = [url |-> t, match |-> (attemptLog[t][3].diff = 0),
                         diffPixels |-> attemptLog[t][3].diff]
      /\ mainPc = "done" => \E j \in 1..Len(results) : results[j] = taskValue[t]

\* the run is over with one such target matched and another different
C6_Witness ==
  /\ mainPc = "done"
  /\ \E t, u \in Targets :
       /\ FailedTwiceThenOk(t) /\ attemptLog[t][3].diff = 0
       /\ FailedTwiceThenOk(u) /\ attemptLog[u][3].diff > 0

\* C7: in the summary, total is the number of input targets and equals
\* matched + different + errored.
C7_SummaryCountsAddUp ==
  summary # Null =>
    LET matched == Cardinality({j \in 1..Len(results) : results[j].match})
        different == Cardinality({j \in 1..Len(results) : ~results[j].match})
        errored == Cardinality({t \in Targets : AllAttemptsFailed(t)})
    IN /\ summary.totalUrls = numUrls
       /\ summary.totalUrls = matched + different + errored

\* C8: a result is reported as passed exactly if its differing-pixel count is
\* 0 and no step of its target failed (compare.ts).
C8_PassedIffNoDiffNoError ==
  \A i \in 1..Len(cmpResults) :
    (StatusOf(cmpResults[i]) = "passed") <=>
      (cmpResults[i].diffPixels = 0 /\ cmpHistory[i] = {})

\* C9: results are filtered, the browser is closed, the summary is computed
\* and the report is generated only when every target has reached its
\* terminal outcome (a success, or three failures) and no task is in flight.
C9_SummaryAfterAllTerminal ==
  (mainPc \in {"close", "summary", "report", "done"} \/ summary # Null \/ reported) =>
    /\ InFlight = {}
    /\ \A t \in Targets :
         /\ Terminal(t)
         /\ \/ AllAttemptsFailed(t)
            \/ attemptLog[t][Len(attemptLog[t])].ok

\* a finished run of three targets, one of them errored and one resolved
C9_Witness ==
  /\ mainPc = "done" /\ reported /\ numUrls = 3
  /\ \E t, u \in Targets : AllAttemptsFailed(t) /\ taskValue[u] # Null

TaskTransitions ==
  { <<"idle", "newPage">>, <<"newPage", "captureDev">>,
    <<"captureDev", "captureProd">>, <<"captureDev", "catchClose">>,
    <<"captureProd", "compare">>, <<"captureProd", "catchClose">>,
    <<"compare", "closeOk">>, <<"compare", "catchClose">>,
    <<"closeOk", "settled">>, <<"catchClose", "newPage">>,
    <<"catchClose", "settled">>, <<"settled", "resolved">> }

TaskOrder(t) ==
  /\ taskPc[t] = "idle" => attempt[t] = 0
  /\ taskPc[t] \in {"newPage", "captureDev", "captureProd", "compare"} =>
       attempt[t] \in 1..3
  /\ taskPc[t] = "captureProd" => captured[t] = {"dev"}
  /\ taskPc[t] = "compare" => captured[t] = {"dev", "prod"}
  /\ taskPc[t] = "closeOk" => captured[t] = {"dev", "prod", "compare"}
  /\ (Terminal(t) /\ taskValue[t] # Null) =>
       captured[t] = {"dev", "prod", "compare"}
  /\ (Terminal(t) /\ taskValue[t] = Null) => AllAttemptsFailed(t)

TaskFrozen(t) ==
  Terminal(t) =>
    /\ taskPc'[t] \in {"settled", "resolved"}
    /\ attempt'[t] = attempt[t] /\ tab'[t] = tab[t]
    /\ captured'[t] = captured[t] /\ numDiff'[t] = numDiff[t]
    /\ taskValue'[t] = taskValue[t] /\ attemptLog'[t] = attemptLog[t]

\* C10: each target moves Pending -> Capturing(attempt 1..3) -> Comparing ->
\* Resolved, or to Resolved(errored) after the third failure: within an
\* attempt the dev capture, then the prod capture, then the comparison
\* complete in this order before the target resolves, and a resolved target
\* makes no further capture, comparison, attempt or result.
C10_TargetStateMachine ==
  /\ [](\A t \in Targets : TaskOrder(t))
  /\ [][\A t \in Targets :
          /\ taskPc'[t] # taskPc[t] => <<taskPc[t], taskPc'[t]>> \in TaskTransitions
          /\ TaskFrozen(t)]_vars

\* one target resolved errored, one resolved with a result, one comparing
C10_Witness ==
  \E t, u, w \in Targets :
    /\ Terminal(t) /\ taskValue[t] = Null
    /\ Terminal(u) /\ taskValue[u] # Null
    /\ taskPc[w] = "compare" /\ attempt[w] = 2

RECURSIVE SumOf(_)
SumOf(s) == IF s = <<>> THEN 0 ELSE Head(s) + SumOf(Tail(s))

\* the same JavaScript number: both NaN, both Infinity, or equal fractions
SameNumber(x, y) ==
  /\ x.kind = y.kind
  /\ x.kind = "number" => x.num * y.den = y.num * x.den

\* C13: the average duration of the summary is 0 when there is no duration
\* to average, and the sum of the durations divided by their number
\* otherwise.
C13_AverageOfNoneIsZero ==
  sumPc \in {"report", "done"} =>
    IF Len(sumDurations) = 0
    THEN SameNumber(avgDuration, Fraction(0, 1))
    ELSE SameNumber(avgDuration, Fraction(SumOf(sumDurations), Len(sumDurations)))

\* a summary is made of an empty result list: every target failed
EmptyResultsSummarized == summary # Null /\ Len(results) = 0 /\ numUrls > 0

\* C14: no summary is made of a result list in which some input target has
\* no entry: the summary computation fails with IncompleteResultSet instead,
\* and nothing is reported.
C14_IncompleteResultSetRejected ==
  (summary # Null \/ reported) =>
    \A t \in Targets : ResultsFor(t) # {}

\* C15: each tab of the pool is held by at most one caller at a time, a tab
\* is busy exactly while a caller holds it, and getTab hands out only a tab
\* whose busy flag was false, setting it in the same step.
C15_TabOwnedByAtMostOne ==
  /\ [](/\ \A c, d \in Callers :
            (c # d /\ tpHeld[c] # 0) => tpHeld[c] # tpHeld[d]
        /\ \A i \in 1..Len(tpTabs) :
            tpTabs[i] <=> \E c \in Callers : tpHeld[c] = i)
  /\ [][\A c \in Callers :
          (tpHeld[c] = 0 /\ tpHeld'[c] # 0) =>
            (~tpTabs[tpHeld'[c]] /\ tpTabs'[tpHeld'[c]])]_vars

\* both tabs are held by two callers, the first of them on the tab that
\* ensureLogin has released, and a third caller sleeps
C15_Witness ==
  /\ tpSize = 2 /\ tpReleased[0] = 1
  /\ \E c, d, e \in Callers \ {0} :
       /\ tpHeld[c] = 1 /\ tpHeld[d] = 2
       /\ tpCaller[e] = "sleeping"

TpFinished(c) == tpCaller[c] \in {"done", "caught", "thrown"}

\* C16: a caller releases the tab it got exactly once, when its page work is
\* over, on the success and on the error path, and holds it until then; when
\* all callers have finished every tab is free; and a caller waiting in
\* getTab eventually gets a tab.
C16_TabReleasedOnceAfterWork ==
  /\ [](\A c \in Callers :
          /\ tpReleased[c] <= 1 /\ tpAcquired[c] <= 1
          /\ tpCaller[c] \in PageWork =>
               /\ tpAcquired[c] = 1 /\ tpReleased[c] = 0
               /\ tpHeld[c] # 0 /\ tpTabs[tpHeld[c]]
          /\ TpFinished(c) =>
               (tpAcquired[c] = 1 /\ tpReleased[c] = 1 /\ tpHeld[c] = 0))
  /\ []((\A c \in Callers : tpCaller[c] = "idle" \/ TpFinished(c)) =>
          \A i \in 1..Len(tpTabs) : ~tpTabs[i])
  /\ \A c \in 0..MaxTpUrls :
       (c \in Callers /\ tpCaller[c] \in {"waiting", "sleeping"}) ~>
         (c \in Callers /\ tpHeld[c] # 0)

\* the run has returned: one caller went through the catch, one returned its
\* links, and one of them had to sleep for its tab
C16_Witness ==
  /\ tpPc = "returned" /\ tpNumUrls > tpSize
  /\ \E c, d \in Callers : tpCaller[c] = "caught" /\ tpCaller[d] = "done" /\ d # 0
  /\ \A i \in 1..Len(tpTabs) : ~tpTabs[i]

\* C17: a failure of the cookie overlay block (no button, a hidden button, or
\* isVisible, click or the 500 ms wait rejecting) never fails captureScreenshot:
\* a call only ends by throwing when an await outside the block rejected, a
\* step that leaves the block by a failure goes to addStyleTag and leaves
\* cookieAccepted alone, and from there the call runs addStyleTag, the scroll,
\* the 3000 ms settle delay and the screenshot in this order, the same awaits
\* as a call that skips the block because cookieAccepted is set.
OverlayFailures == {"absent", "hidden", "isVisibleThrew", "clickThrew", "waitThrew"}
Position(step) == CHOOSE i \in 1..Len(AfterOverlay) : AfterOverlay[i] = step
OverlayFailureGoesOn ==
  (capPc \in OverlaySteps /\ capOverlay' \in OverlayFailures) =>
    /\ capPc' = "addStyleTag"
    /\ capAfter' = <<>>
    /\ UNCHANGED <<cookieAccepted, capFailedAt>>
C17_OverlayFailureNeverFailsCapture ==
  /\ [](capPc = "thrown" =>
          capFailedAt \in {"goto", "waitForLoadState"} \cup AfterOverlaySteps)
  /\ [](capOverlay # "none" =>
          /\ capPc \in AfterOverlaySteps \cup {"returned", "thrown"}
          /\ capPc = "returned" => capAfter = AfterOverlay
          /\ capPc \in AfterOverlaySteps =>
                capAfter = SubSeq(AfterOverlay, 1, Position(capPc) - 1)
          /\ capPc = "thrown" =>
                capAfter = SubSeq(AfterOverlay, 1, Position(capFailedAt) - 1))
  /\ [][OverlayFailureGoesOn]_vars

\* A call whose click was rejected has taken the screenshot and returned.
C17_Witness ==
  capPc = "returned" /\ capOverlay = "clickThrew" /\ capAfter = AfterOverlay

\* Whether padImage was called with the size img already has.
SizeMatches(img, W, H) == img.width = W /\ img.height = H

\* C18: when img.width = targetWidth and img.height = targetHeight, padImage
\* returns img itself (the same object, so the same bytes), and so padding the
\* result of padImage once more to the same size returns that result itself.
C18_MatchingSizeReturnsInput ==
  /\ (padPc \in {"padded", "again"} /\ SizeMatches(padImg, padWidth, padHeight))
        => padded = padImg
  /\ padPc = "again" => paddedAgain = padded

\* The padImage functions with the early return do return their input, and
\* the one of compare.ts returns an object with the same size and bytes.
MatchingSizeReturnsEqualBytes ==
  /\ (padPc \in {"padded", "again"} /\ SizeMatches(padImg, padWidth, padHeight)) =>
       /\ padded.width = padImg.width /\ padded.height = padImg.height
       /\ padded.data = padImg.data
       /\ padImpl # "compare" => padded = padImg
  /\ padPc = "again" =>
       /\ paddedAgain.width = padded.width /\ paddedAgain.height = padded.height
       /\ paddedAgain.data = padded.data
       /\ padImpl # "compare" => paddedAgain = padded

\* Pixel (x, y) of the result lies in the rectangle img was copied to.
InPlacement(impl, img, W, H, x, y) ==
  /\ x - OffsetX(impl, img, W) \in 0..(img.width - 1)
  /\ y - OffsetY(impl, img, H) \in 0..(img.height - 1)

\* out is img on the placement rectangle and fill in all four channels
\* everywhere else.
PaddedWith(impl, img, W, H, out, fill) ==
  /\ out # Thrown
  /\ out.width = W /\ out.height = H
  /\ DOMAIN out.data = 0..(W * H * 4 - 1)
  /\ \A y \in 0..(H - 1), x \in 0..(W - 1), c \in 0..3 :
       out.data[(y * W + x) * 4 + c] =
         IF InPlacement(impl, img, W, H, x, y)
         THEN img.data[((y - OffsetY(impl, img, H)) * img.width
                        + (x - OffsetX(impl, img, W))) * 4 + c]
         ELSE fill

\* C19: for targetWidth >= img.width and targetHeight >= img.height the result
\* of padImage has the target size, equals img in all four channels on the
\* rectangle img was placed on, and is 255 in all four channels outside it.
C19_PaddingKeepsImageOnWhite ==
  (padPc \in {"padded", "again"} /\ padWidth >= padImg.width
                                 /\ padHeight >= padImg.height)
    => PaddedWith(padImpl, padImg, padWidth, padHeight, padded, 255)

\* What the code does: white outside the placement for the four padImage
\* functions that fill with 255, transparent black for the one of compare.ts.
PaddingKeepsImageOnFill ==
  (padPc \in {"padded", "again"} /\ padWidth >= padImg.width
                                 /\ padHeight >= padImg.height)
    => PaddedWith(padImpl, padImg, padWidth, padHeight, padded, FillByte(padImpl))

\* Every assignment of padImage's copy loops goes to an index of the target
\* buffer, and no two go to the same index: nothing of img is left out,
\* wrapped into another row or dropped.
CopyStaysInside(impl, img, W, H) ==
  LET writes == CopyWrites(impl, img, W, H)
  IN  /\ \A wr \in writes : wr[1] \in 0..(W * H * 4 - 1)
      /\ Cardinality({wr[1] : wr \in writes}) = img.width * img.height * 4
      /\ ~BitbltThrows(impl, img, W, H)

C21_SameContentTopLeftMatches ==
  /\ prPc \in {"pixelmatch", "resolved"} =>
       /\ padded1.data = padded2.data
       /\ padded1.data = Framed(0, img1, maxWidth, maxHeight).data
       /\ padded2.data = Framed(0, img2, maxWidth, maxHeight).data
  /\ prPc = "resolved" => prDiffPixels = 0

\* The scripts that pad top-left do give 0 differing pixels.
TopLeftPaddingMatches ==
  ~Centered(prImpl) => C21_SameContentTopLeftMatches

\* The two files hold pixel-identical images of one size.
SameImage(a, b) ==
  a.width = b.width /\ a.height = b.height /\ a.data = b.data

\* C22: a comparison of an image with itself or with a pixel-identical image
\* of the same size counts 0 differing pixels, whatever the threshold (an
\* identical pixel has distance 0, which exceeds no threshold), and the result
\* says matched: isDifferent is false, match is true.
C22_IdenticalImagesCountZero ==
  (prPc = "resolved" /\ SameImage(img1, img2)) =>
    /\ prDiffPixels = 0
    /\ ~IsDifferent(prDiffPixels)
    /\ MakeResult(1, prDiffPixels).match

\* Two identical pictures of more than one pixel, every byte different from
\* the others, have been compared.
C22_Witness ==
  /\ prPc = "resolved" /\ SameImage(img1, img2)
  /\ img1.width > 1 /\ img1.height > 1
  /\ img1.data[0] # img1.data[4]

\* C23: whenever pixelmatch is called, both buffers it is given belong to
\* images of the width and height passed to it, whatever the sizes of the two
\* images read.
C23_DifferGetsEqualSizes ==
  prPc = "pixelmatch" =>
    /\ padded1.width = maxWidth /\ padded1.height = maxHeight
    /\ padded2.width = maxWidth /\ padded2.height = maxHeight
    /\ ByteLength(padded1.data) = maxWidth * maxHeight * 4
    /\ ByteLength(padded2.data) = maxWidth * maxHeight * 4

\* The scripts that call padImage do hand over equal sizes.
PaddingScriptsGiveEqualSizes ==
  prImpl # "compare" => C23_DifferGetsEqualSizes

\* The image has width * height * 4 bytes of pixel data.
FourBytesPerPixel(img) ==
  ByteLength(img.data) = img.width * img.height * 4

ExpandedOrPaddedHasFourBytes ==
  /\ (rdPc \in {"read", "padded"} /\ rdImpl = "variant3")
       => FourBytesPerPixel(rdImage)
  /\ (rdPc = "padded" /\ rdPadded # rdImage) => FourBytesPerPixel(rdPadded)

\* C25: over all captures of a run the consent button is clicked at most
\* once, and once a capture has clicked it and set the flag no other capture
\* clicks.
C25_ConsentClickedAtMostOnce == Len(ovClicks) <= 1

\* What the flag does give in variant 2: a capture that read the flag as set
\* never looks for the button, so never clicks.
SetFlagSkipsOverlay ==
  \A c \in DOMAIN ovPc :
    ovSaw[c] = "set" =>
      /\ ovVariant = 2
      /\ ovPc[c] \in {"rest", "done"}
      /\ \A i \in 1..Len(ovClicks) : ovClicks[i] # c

\* The pages the attempts of task t open.
PagesOf(t) == {FreshPage(t, a) : a \in 1..MaxAttempts}

\* C26: the number of open task pages never exceeds the concurrency limit:
\* only tasks in flight have an open page, each at most one, and a task about
\* to open the page of its next attempt has no open page left.
C26_OpenPagesWithinLimit ==
  /\ Cardinality(openPages) <= limit
  /\ openPages \subseteq UNION {PagesOf(t) : t \in InFlight}
  /\ \A t \in Targets :
       /\ Cardinality(openPages \cap PagesOf(t)) <= 1
       /\ taskPc[t] = "newPage" => openPages \cap PagesOf(t) = {}

\* As many pages open as the limit allows, one of them the page of a second
\* or third attempt whose earlier pages are closed.
C26_Witness ==
  /\ limit = 2 /\ Cardinality(openPages) = 2
  /\ \E t \in Targets :
       /\ attempt[t] >= 2 /\ Attempting(t)
       /\ FreshPage(t, 1) \in closedPages

\* A step closes only pages that are open, opens only pages that were never
\* open before, and a page leaves the open pages only by being closed.
PagesClosedOnce ==
  /\ closedPages \subseteq closedPages'
  /\ \A p \in closedPages' \ closedPages : p \in openPages /\ p \notin openPages'
  /\ \A p \in openPages' \ openPages : p \notin closedPages
  /\ \A p \in openPages \ openPages' : p \in closedPages'

SlInFlight(t) == slPc # <<>> /\ slPc[t] \in {"captureDev", "captureProd", "compare"}

\* C28: no two tasks in flight at the same time have an artifact path in
\* common (distinct targets get distinct dev, prod and diff paths), and the
\* screenshots a task compares are the ones it wrote itself.
C28_DistinctTargetsDistinctArtifacts ==
  /\ \A t \in DOMAIN slPc, u \in DOMAIN slPc :
       (t # u /\ SlInFlight(t) /\ SlInFlight(u)) =>
         /\ ArtifactPaths(slUrls[t]).dev # ArtifactPaths(slUrls[u]).dev
         /\ ArtifactPaths(slUrls[t]).prod # ArtifactPaths(slUrls[u]).prod
         /\ ArtifactPaths(slUrls[t]).diff # ArtifactPaths(slUrls[u]).diff
  /\ \A t \in DOMAIN slRead :
       slRead[t] # Null => slRead[t] = [dev |-> t, prod |-> t]

\* What the slug does give: targets with distinct slugs never share a file.
DistinctSlugsDistinctArtifacts ==
  \A t \in DOMAIN slRead :
    (slRead[t] # Null /\ CleanName(slUrls[1]) # CleanName(slUrls[2])) =>
      slRead[t] = [dev |-> t, prod |-> t]

\* ---- C29 ----
\* C29: under any interleaving of getTab calls the pool creates one browser
\* context and size tabs: never a second context, tabs.length never above
\* size, and exactly size tabs once the pool is initialized.
C29_OneContextAndSizeTabs ==
  /\ tiContexts <= 1
  /\ Len(tiTabs) <= tiSize
  /\ (tiInitialized => (tiContexts = 1 /\ Len(tiTabs) = tiSize))

\* What initialize does give: one context and size tabs for every call of
\* initialize that got past the isInitialized test.
SizeTabsPerInitialize ==
  /\ Len(tiTabs) <= tiSize * tiContexts
  /\ tiContexts <= Cardinality({c \in DOMAIN tiPc : tiPc[c] # "idle"})

\* In processUrls the first getTab (of ensureLogin) is awaited before any
\* other is issued: one initialize, size tabs.
ProcessUrlsCreatesSizeTabs ==
  /\ Len(tpTabs) <= tpSize
  /\ (tpInitialized => Len(tpTabs) = tpSize)

\* ---- C30 ----
\* C30: when processUrls returns, results holds one row per input URL, row i
\* for urls[i] with the links of its own extractLinks call, whatever the
\* order in which the calls finished; a call that threw gives a row with
\* empty internal and external links, and every other call still ran to its
\* end.
C30_OneRowPerUrlInInputOrder ==
  tpPc \in {"close", "returned"} =>
    /\ Len(tpResults) = tpNumUrls
    /\ \A i \in 1..tpNumUrls :
         /\ tpCaller[i] \in {"done", "caught"}
         /\ tpResults[i].sourceUrl = Url(i)
         /\ tpResults[i].internalLinks = Join(tpValue[i].internalLinks)
         /\ tpResults[i].externalLinks = Join(tpValue[i].externalLinks)
         /\ tpResults[i].summary = <<Len(tpValue[i].internalLinks),
                                     Len(tpValue[i].externalLinks)>>
         /\ (tpCaller[i] = "caught" =>
               /\ tpResults[i].internalLinks = <<>>
               /\ tpResults[i].externalLinks = <<>>
               /\ tpResults[i].summary = <<0, 0>>)

\* processUrls has returned three rows; the calls finished in the order
\* 3, 1, 2, the first threw and the second found links.
C30_Witness ==
  /\ tpPc = "returned" /\ tpNumUrls = 3
  /\ tpOrder = <<3, 1, 2>>
  /\ tpCaller[1] = "caught" /\ tpCaller[2] = "done"
  /\ tpResults[2].internalLinks = <<"in1", "\n", "in2">>
  /\ Len(tpResults) = 3

====
